---- MODULE Spec2Model ----
(***************************************************************************)
(* A model of the evaluation engine of mechgaia-agentbeats: the sandbox    *)
(* executor (src/src/mechgaia_env/sandbox.py), the environment state       *)
(* machine (src/src/mechgaia_env/env.py), the conversation driver and the  *)
(* batch executor (src/src/green_agent/agent.py) and the deterministic     *)
(* grader (src/src/mechgaia_env/evaluators.py).                            *)
(*                                                                         *)
(* Python values are records [t, n]; a dict is a sequence of [k, v]        *)
(* entries in insertion order; a text is the record of the features the    *)
(* code's regular expressions and substring tests read from it.            *)
(***************************************************************************)
EXTENDS Integers, Sequences, FiniteSets, TLC

(***************************************************************************)
(* Bounds of the model.                                                    *)
(***************************************************************************)
\* longest snippet, in lines
MaxLines == 1
\* largest max_num_steps the driver is called with
MaxNumSteps == 2
\* number of instances in a batch
MaxBatch == 2
\* python_exec / reset operations explored on one environment
MaxEnvOps == 3
\* longest snippet given to the sandbox executor on its own, in lines
MaxSandboxLines == 2
\* most fenced json blocks in a text given to the response parser
MaxBlocks == 2
\* most numbered items ("1.", "2)") in a text given to the response parser
MaxNumbered == 2
\* most evaluations passed to aggregate_scores
MaxEvaluations == 2
\* most scores passed to bootstrap_confidence_interval
MaxScores == 3
\* bits of the mantissa of a float
MantissaBits == 4

(***************************************************************************)
(* Numbers are fixed point: the integer n stands for n / Scale.            *)
(***************************************************************************)
Scale == 10 * 1000 * 1000
\* 0.01, the default tolerance
DefaultTolerance == Scale \div 100
\* the gold value of the modelled calculation tasks: 1.0
Gold == Scale
\* a gold solution of 0.001
SmallGold == Scale \div 1000

(***************************************************************************)
(* Python values.                                                          *)
(***************************************************************************)
PyNone == [t |-> "none", n |-> 0]
PyInt(k) == [t |-> "int", n |-> k]
PyModule(k) == [t |-> "module", n |-> k]
PyBuiltins == [t |-> "builtins", n |-> 0]

\* an optional string: None, or a str (possibly empty)
NoStr == [isNone |-> TRUE, s |-> ""]
Str(x) == [isNone |-> FALSE, s |-> x]
\* Python truthiness of an optional string: None and "" are falsy
Truthy(e) == ~e.isNone /\ e.s # ""

(***************************************************************************)
(* Dicts (insertion ordered).                                              *)
(***************************************************************************)
Keys(d) == {d[i].k : i \in 1..Len(d)}
Has(d, key) == key \in Keys(d)
Get(d, key) == d[CHOOSE i \in 1..Len(d) : d[i].k = key].v
\* d[key] = val: an existing key keeps its position
Put(d, key, val) ==
    IF Has(d, key)
    THEN [i \in 1..Len(d) |-> IF d[i].k = key THEN [k |-> key, v |-> val] ELSE d[i]]
    ELSE Append(d, [k |-> key, v |-> val])
RECURSIVE Update(_, _)
\* d.update(e)
Update(d, e) == IF e = <<>> THEN d ELSE Update(Put(d, Head(e).k, Head(e).v), Tail(e))
KeyList(d) == [i \in 1..Len(d) |-> d[i].k]
RECURSIVE Filter(_, _)
Filter(s, keep) ==
    IF s = <<>> THEN <<>>
    ELSE IF Head(s) \in keep THEN <<Head(s)>> \o Filter(Tail(s), keep)
    ELSE Filter(Tail(s), keep)

(***************************************************************************)
(* Exceptions.                                                             *)
(***************************************************************************)
NoExc == [cls |-> "", msg |-> ""]
Exc(c, m) == [cls |-> c, msg |-> m]
\* the classes that do not derive from Exception
BaseOnly == {"SystemExit", "KeyboardInterrupt"}
\* caught by "except Exception"
IsException(e) == e # NoExc /\ e.cls \notin BaseOnly

(***************************************************************************)
(* Snippets: a snippet is a sequence of lines.                             *)
(*   assign  var = <int n>                                                 *)
(*   copy    var = src                                                     *)
(*   expr    src                      (a bare expression)                  *)
(*   print   print(src)                                                    *)
(*   raise   raise cls(msg)                                                *)
(*   syntax  a line that does not compile                                  *)
(***************************************************************************)
VarNames == {"x", "result", "answer"}
Assign(v, n) == [op |-> "assign", var |-> v, src |-> "", n |-> n, cls |-> "", msg |-> ""]
Copy(v, s) == [op |-> "copy", var |-> v, src |-> s, n |-> 0, cls |-> "", msg |-> ""]
Expr(s) == [op |-> "expr", var |-> "", src |-> s, n |-> 0, cls |-> "", msg |-> ""]
PrintOf(s) == [op |-> "print", var |-> "", src |-> s, n |-> 0, cls |-> "", msg |-> ""]
Raise(c, m) == [op |-> "raise", var |-> "", src |-> "", n |-> 0, cls |-> c, msg |-> m]
SyntaxErr == [op |-> "syntax", var |-> "", src |-> "", n |-> 0, cls |-> "", msg |-> ""]

Lines ==
    {Assign("x", 1), Assign("answer", 2), Assign("result", Gold),
     Expr("x"), PrintOf("x"),
     Raise("ValueError", "boom"), Raise("AssertionError", ""),
     Raise("SystemExit", "1"), SyntaxErr}

RECURSIVE SeqsUpTo(_, _)
SeqsUpTo(S, n) ==
    IF n = 0 THEN {<<>>}
    ELSE LET shorter == SeqsUpTo(S, n - 1)
         IN  shorter \cup {Append(s, e) : s \in {q \in shorter : Len(q) = n - 1}, e \in S}
Snippets == SeqsUpTo(Lines, MaxLines)

(***************************************************************************)
(* exec(code, namespace) and eval(line, namespace).                        *)
(***************************************************************************)
NameError(s) == Exc("NameError", "name is not defined")
\* one line of a snippet run in namespace ns with captured stdout out
RunLine(line, ns, out) ==
    CASE line.op = "assign" ->
           [ns |-> Put(ns, line.var, PyInt(line.n)), out |-> out, exc |-> NoExc]
      [] line.op = "copy" ->
           IF Has(ns, line.src)
           THEN [ns |-> Put(ns, line.var, Get(ns, line.src)), out |-> out, exc |-> NoExc]
           ELSE [ns |-> ns, out |-> out, exc |-> NameError(line.src)]
      [] line.op = "expr" ->
           IF Has(ns, line.src)
           THEN [ns |-> ns, out |-> out, exc |-> NoExc]
           ELSE [ns |-> ns, out |-> out, exc |-> NameError(line.src)]
      [] line.op = "print" ->
           IF Has(ns, line.src)
           THEN [ns |-> ns, out |-> Append(out, Get(ns, line.src)), exc |-> NoExc]
           ELSE [ns |-> ns, out |-> out, exc |-> NameError(line.src)]
      [] line.op = "raise" ->
           [ns |-> ns, out |-> out, exc |-> Exc(line.cls, line.msg)]
      [] OTHER ->
           [ns |-> ns, out |-> out, exc |-> Exc("SyntaxError", "invalid syntax")]

RECURSIVE RunLines(_, _, _)
\* the lines of code in order, stopping at the first exception
RunLines(code, ns, out) ==
    IF code = <<>> THEN [ns |-> ns, out |-> out, exc |-> NoExc]
    ELSE LET r == RunLine(Head(code), ns, out)
         IN  IF r.exc # NoExc THEN r ELSE RunLines(Tail(code), r.ns, r.out)

\* exec(code, namespace): the builtins are added to the namespace, the code
\* is compiled as a whole (a line that does not compile fails the call before
\* any line runs), then run
PyExec(code, ns, out) ==
    LET ns1 == IF Has(ns, "__builtins__") THEN ns ELSE Put(ns, "__builtins__", PyBuiltins)
    IN  IF \E i \in 1..Len(code) : code[i].op = "syntax"
        THEN [ns |-> ns1, out |-> out, exc |-> Exc("SyntaxError", "invalid syntax")]
        ELSE RunLines(code, ns1, out)

\* eval(last_line, namespace): the value of the line as an expression
PyEval(line, ns, out) ==
    CASE line.op = "expr" ->
           IF Has(ns, line.src)
           THEN [val |-> Get(ns, line.src), out |-> out, exc |-> NoExc]
           ELSE [val |-> PyNone, out |-> out, exc |-> NameError(line.src)]
      [] line.op = "print" ->
           IF Has(ns, line.src)
           THEN [val |-> PyNone, out |-> Append(out, Get(ns, line.src)), exc |-> NoExc]
           ELSE [val |-> PyNone, out |-> out, exc |-> NameError(line.src)]
      [] OTHER ->
           [val |-> PyNone, out |-> out, exc |-> Exc("SyntaxError", "invalid syntax")]

(***************************************************************************)
(* SandboxExecutor.                                                        *)
(***************************************************************************)
\* SandboxExecutor.__init__: self.safe_modules
SafeModules ==
    << [k |-> "numpy", v |-> PyModule(1)], [k |-> "np", v |-> PyModule(1)],
       [k |-> "scipy", v |-> PyModule(2)], [k |-> "math", v |-> PyModule(3)] >>

\* the names of VarNames that contain one of result_keywords
ResultKeywordNames == {"result", "answer"}

\* "=" in last_line and none of "==", "!=", "<=", ">="
IsAssignment(line) == line.op \in {"assign", "copy"}

\* the exceptions the inner try around eval swallows
EvalSwallowed == {"SyntaxError", "NameError", "TypeError", "ValueError"}

\* namespace = self.safe_modules.copy(); namespace.update(variables)
NewNamespace(safe_modules, variables) == Update(safe_modules, variables)

SafeModulesShared(safe_modules, ns) == ns
\* self.safe_modules after a call that ran in namespace ns: the snippet ran
\* in a copy, so the executor's own mapping is what it was
SafeModulesAfter(safe_modules, ns) == safe_modules

\* the "result" inferred when the namespace has no "result": the value of
\* the last line as an expression, else a variable the snippet added
InferFromLastLine(safe_modules, code, variables, ns, out) ==
    LET tryEval == code # <<>> /\ ~IsAssignment(code[Len(code)])
        ev == IF tryEval THEN PyEval(code[Len(code)], ns, out)
              ELSE [val |-> PyNone, out |-> out, exc |-> NoExc]
        swallowed == ev.exc # NoExc /\ ev.exc.cls \in EvalSwallowed
        r1 == IF ev.exc = NoExc THEN ev.val ELSE PyNone
        new_vars_list == Filter(KeyList(ns),
                                Keys(ns) \ (Keys(safe_modules) \cup Keys(variables)))
        result_vars == Filter(new_vars_list, ResultKeywordNames)
    IN  IF ev.exc # NoExc /\ ~swallowed
        THEN [result |-> PyNone, out |-> ev.out, exc |-> ev.exc]
        ELSE IF r1 # PyNone
        THEN [result |-> r1, out |-> ev.out, exc |-> NoExc]
        ELSE IF new_vars_list = <<>>
        THEN [result |-> PyNone, out |-> ev.out, exc |-> NoExc]
        ELSE IF result_vars # <<>>
        THEN [result |-> Get(ns, result_vars[Len(result_vars)]),
              out |-> ev.out, exc |-> NoExc]
        ELSE [result |-> Get(ns, new_vars_list[Len(new_vars_list)]),
              out |-> ev.out, exc |-> NoExc]

InferIgnoringResult(safe_modules, code, variables, ns, out) ==
    InferFromLastLine(safe_modules, code, variables, ns, out)
\* the "result" the call reports when exec ended normally with namespace ns
\* and stdout out: [result, out, exc]
InferResult(safe_modules, code, variables, ns, out) ==
    IF Has(ns, "result")
    THEN [result |-> Get(ns, "result"), out |-> out, exc |-> NoExc]
    ELSE InferFromLastLine(safe_modules, code, variables, ns, out)

TimeoutMsg == "Execution timeout"

\* which exception of the snippet the call's handler turns into 'error'
Caught(e) == IsException(e)

\* the return of execute once exec has ended as ex: the part of the call
\* from "Try to get result" to the return statement
ExecuteReturn(safe_modules, code, variables, slow, start, ex, inf) ==
    [raised |-> IF inf.exc # NoExc /\ ~Caught(inf.exc) THEN inf.exc ELSE NoExc,
     exc |-> inf.exc,
     result |-> inf.result,
     error |-> IF slow THEN Str(TimeoutMsg)
               ELSE IF inf.exc # NoExc /\ Caught(inf.exc) THEN Str(inf.exc.msg)
               ELSE NoStr,
     stdout |-> inf.out,
     start |-> start,
     ns |-> ex.ns,
     safe_modules |-> SafeModulesAfter(safe_modules, ex.ns)]

\* SandboxExecutor.execute(code, variables): slow says that the elapsed time
\* exceeded the timeout.  exc is the exception raised while the snippet ran,
\* raised the exception that leaves the call (NoExc when it returns); start
\* is the namespace the snippet started in, ns the namespace it ended with.
\* (Each intermediate value is bound once, as the element of a singleton.)
Execute(safe_modules, code, variables, slow) ==
    CHOOSE ret \in
      { ExecuteReturn(safe_modules, code, variables, slow, start, ex, inf) :
          <<start, ex, inf>> \in
            { <<st, e, IF e.exc = NoExc
                       THEN InferResult(safe_modules, code, variables, e.ns, e.out)
                       ELSE [result |-> PyNone, out |-> e.out, exc |-> e.exc]>> :
                <<st, e>> \in { <<s0, PyExec(code, s0, <<>>)>> :
                                  s0 \in {NewNamespace(safe_modules, variables)} } } } : TRUE

(***************************************************************************)
(* Actions and texts.                                                      *)
(*                                                                         *)
(* A content string is the record of what MechgaiaEnv.step reads from it:  *)
(*   gold  str(solution) occurs in it                                      *)
(*   kw    it contains one of the keywords the task type's branch tests    *)
(*   opt   the number of its last "option N" phrase (0: no such phrase)    *)
(***************************************************************************)
RESPOND_ACTION_NAME == "respond"
ToolNames == {"calculator", "python_exec", "get_material_properties"}
ActionNames == {RESPOND_ACTION_NAME} \cup ToolNames \cup {"frobnicate"}

Content(g, k, o) == [gold |-> g, kw |-> k, opt |-> o]
EmptyContent == Content(FALSE, FALSE, 0)
Contents == {Content(g, k, o) : g \in BOOLEAN, k \in BOOLEAN, o \in {0, 2}}

\* an arithmetic expression: it evaluates to val, or eval raises
Expression(ok, val) == [ok |-> ok, val |-> val]
Expressions ==
    {Expression(TRUE, Gold), Expression(TRUE, Gold + DefaultTolerance), Expression(FALSE, 0)}

\* kwargs: dict says that it is a mapping; the other fields are its entries
Kwargs(isDict, c, e, code, m) ==
    [dict |-> isDict, content |-> c, expression |-> e, code |-> code, material |-> m]
NoKwargs == Kwargs(TRUE, EmptyContent, Expression(FALSE, 0), <<>>, FALSE)
NotADict == Kwargs(FALSE, EmptyContent, Expression(FALSE, 0), <<>>, FALSE)

\* types.Action
Action(name, kwargs) == [name |-> name, kwargs |-> kwargs]
RespondWith(c) == Action(RESPOND_ACTION_NAME, Kwargs(TRUE, c, Expression(FALSE, 0), <<>>, FALSE))

Actions ==
    {RespondWith(c) : c \in Contents}
    \cup {Action("calculator", Kwargs(TRUE, EmptyContent, e, <<>>, FALSE)) : e \in Expressions}
    \cup {Action("python_exec", Kwargs(TRUE, EmptyContent, Expression(FALSE, 0), code, FALSE)) :
            code \in Snippets}
    \cup {Action("get_material_properties",
                 Kwargs(TRUE, EmptyContent, Expression(FALSE, 0), <<>>, m)) : m \in BOOLEAN}
    \cup {Action("frobnicate", NoKwargs)}
    \cup {Action(n, NotADict) : n \in ActionNames}

(***************************************************************************)
(* MechgaiaEnv.                                                            *)
(***************************************************************************)
\* self.max_steps
max_steps == 30

TaskTypes == {"legacy", "multiple_choice", "calculation", "design", "multi_step_design"}
\* current_problem: has_answer says that solution / correct_option is not None
Problem(type, has, sol, tol) ==
    [type |-> type, has_answer |-> has, solution |-> sol, tolerance |-> tol]
NoProblem == Problem("none", FALSE, 0, 0)
\* the problems the identifiers of an environment can select; a legacy
\* problem is compared with the fixed tolerance 0.01
Problems ==
    {Problem(t, TRUE, Gold, DefaultTolerance) : t \in TaskTypes}
    \cup {Problem("calculation", FALSE, 0, DefaultTolerance)}

\* what the four patterns of extract_selected_option find in a text, each
\* in the order of the text:
\*   option    the numbers of the "option N" phrases
\*   numbered  the numbered items "N." / "N)"; context says that one of the
\*             context words stands within 20 characters of the first place
\*             the digits of N occur
\*   answer_is the numbers of the "answer is N" phrases
\*   explicit  the numbers of the "N is correct" phrases
Mentions(option, numbered, answer_is, explicit) ==
    [option |-> option, numbered |-> numbered, answer_is |-> answer_is,
     explicit |-> explicit]
Numbered(n, context) == [n |-> n, context |-> context]
\* a number is taken whenever it is at least 1
AtLeastOne(option_num, num_options) == 1 <= option_num
\* 1 <= option_num <= num_options
InRange(option_num, num_options) == 1 <= option_num /\ option_num <= num_options
\* int(matches[-1]) when the pattern has matches (0: it has none)
LastMatch(matches) == IF matches = <<>> THEN 0 ELSE matches[Len(matches)]
\* extract_selected_option(response_text, num_options); -1 is None
SelectedOption(m, num_options) ==
    LET hits == {i \in 1..Len(m.numbered) :
                   InRange(m.numbered[i].n, num_options) /\ m.numbered[i].context}
    IN  IF InRange(LastMatch(m.option), num_options) THEN LastMatch(m.option) - 1
        ELSE IF hits # {}
        THEN m.numbered[CHOOSE i \in hits : \A j \in hits : i <= j].n - 1
        ELSE IF InRange(LastMatch(m.answer_is), num_options)
        THEN LastMatch(m.answer_is) - 1
        ELSE IF InRange(LastMatch(m.explicit), num_options)
        THEN LastMatch(m.explicit) - 1
        ELSE -1
\* extract_selected_option on a text whose only mention is "option N"
\* (content.opt = 0: the text has no such phrase)
ExtractSelectedOption(content, num_options) ==
    SelectedOption(Mentions(IF content.opt = 0 THEN <<>> ELSE <<content.opt>>,
                            <<>>, <<>>, <<>>),
                   num_options)

Abs(a) == IF a < 0 THEN -a ELSE a

\* an observation: what it reports, the value reported, the notes appended
Obs(kind, val, notes) == [kind |-> kind, val |-> val, notes |-> notes]
NoObs == Obs("", PyNone, <<>>)

\* MechgaiaEnv.__init__: task is the problem that the identifiers given to
\* the constructor select; sandbox = SandboxExecutor()
NewEnv(task) ==
    [current_step |-> 0, solved |-> FALSE, current_problem |-> NoProblem, task |-> task,
     safe_modules |-> SafeModules, persistent_namespace |-> <<>>]

\* MechgaiaEnv.reset
EnvReset(env) ==
    [env EXCEPT !.current_step = 0, !.solved = FALSE, !.persistent_namespace = <<>>,
                !.current_problem = env.task]

\* the respond branch of step: [solved, done, reward, observation]
StepRespond(env, content) ==
    LET p == env.current_problem
        keep == [solved |-> env.solved, done |-> FALSE, reward |-> 0,
                 observation |-> Obs("response_received", PyNone, <<>>)]
    IN  IF env.solved THEN keep
        ELSE CASE p.type = "none" -> keep
               [] p.type = "multiple_choice" ->
                    IF ~p.has_answer THEN keep
                    ELSE IF ExtractSelectedOption(content, 0) # -1
                    THEN [solved |-> TRUE, done |-> TRUE, reward |-> 0,
                          observation |-> Obs("task_completed_option", PyNone, <<>>)]
                    ELSE IF content.kw
                    THEN [solved |-> TRUE, done |-> TRUE, reward |-> 0,
                          observation |-> Obs("task_completed", PyNone, <<>>)]
                    ELSE keep
               [] p.type \in {"calculation", "legacy"} ->
                    IF ~p.has_answer THEN keep
                    ELSE IF content.gold
                    THEN [solved |-> TRUE, done |-> TRUE, reward |-> 1,
                          observation |-> Obs("response_received", PyNone, <<"correct">>)]
                    ELSE IF content.kw
                    THEN [keep EXCEPT !.observation =
                              Obs("response_received", PyNone, <<"please_provide">>)]
                    ELSE keep
               [] OTHER ->
                    IF content.kw
                    THEN [solved |-> TRUE, done |-> TRUE, reward |-> 0,
                          observation |-> Obs("response_received", PyNone, <<"will_be_evaluated">>)]
                    ELSE keep

\* a tool result within the tolerance of the solution, as step tests it
MatchesSolution(env, value) ==
    LET p == env.current_problem
    IN  /\ p.type \in {"calculation", "legacy"}
        /\ p.has_answer
        /\ Abs(value - p.solution) < p.tolerance

\* the calculator branch of step
StepCalculator(env, expression) ==
    IF ~expression.ok
    THEN [solved |-> env.solved, done |-> FALSE, reward |-> 0,
          observation |-> Obs("calculator_error", PyNone, <<>>)]
    ELSE IF MatchesSolution(env, expression.val)
    THEN [solved |-> TRUE, done |-> TRUE, reward |-> 1,
          observation |-> Obs("calculator_result", PyInt(expression.val), <<"correct">>)]
    ELSE [solved |-> env.solved, done |-> FALSE, reward |-> 0,
          observation |-> Obs("calculator_result", PyInt(expression.val), <<>>)]

\* the python_exec branch of step, given the sandbox's result r
StepPythonExec(env, r) ==
    LET stdout == r.stdout
        base == IF Truthy(r.error) THEN Obs("python_error", PyNone, <<r.error.s>>)
                ELSE IF r.result # PyNone THEN Obs("python_result", r.result, <<>>)
                ELSE IF stdout # <<>> THEN Obs("python_output", PyNone, <<>>)
                ELSE Obs("python_no_output", PyNone, <<>>)
        withOut == IF ~Truthy(r.error) /\ stdout # <<>>
                      /\ (r.result = PyNone \/ <<r.result>> # stdout)
                   THEN [base EXCEPT !.notes = Append(@, "stdout")] ELSE base
        result == IF Truthy(r.error) THEN PyNone ELSE r.result
        hit == /\ result.t = "int"
               /\ result.n # 0
               /\ MatchesSolution(env, result.n)
    IN  IF hit
        THEN [solved |-> TRUE, done |-> TRUE, reward |-> 1,
              observation |-> [withOut EXCEPT !.notes = Append(@, "correct")]]
        ELSE [solved |-> env.solved, done |-> FALSE, reward |-> 0,
              observation |-> withOut]

\* what stands for the sandbox's result in a step that does not call it
NoExec ==
    [raised |-> NoExc, exc |-> NoExc, result |-> PyNone, error |-> NoStr,
     stdout |-> <<>>, start |-> <<>>, ns |-> <<>>, safe_modules |-> <<>>]

\* the step limit is never reached
NeverAtMax(current_step) == FALSE
\* self.current_step >= self.max_steps
AtMax(current_step) == current_step >= max_steps

\* step once the sandbox has returned r (python_exec) or was not called
StepWith(env, action, r) ==
    LET env1 == [env EXCEPT !.current_step = @ + 1]
        kw == action.kwargs
        calls == action.name = "python_exec" /\ kw.dict
        b == CASE action.name = RESPOND_ACTION_NAME -> StepRespond(env1, kw.content)
               [] action.name = "calculator" -> StepCalculator(env1, kw.expression)
               [] action.name = "python_exec" -> StepPythonExec(env1, r)
               [] action.name = "get_material_properties" ->
                    [solved |-> env.solved, done |-> FALSE, reward |-> 0,
                     observation |-> Obs(IF kw.material THEN "material_properties"
                                         ELSE "material_not_found", PyNone, <<>>)]
               [] OTHER ->
                    [solved |-> env.solved, done |-> FALSE, reward |-> 0,
                     observation |-> Obs("unknown_action", PyNone, <<>>)]
        atMax == AtMax(env1.current_step)
        p == env.current_problem
        tell == atMax /\ ~b.solved /\ p.has_answer
                /\ p.type \in {"multiple_choice", "calculation", "legacy"}
        raised == IF action.name \in ({RESPOND_ACTION_NAME} \cup ToolNames) /\ ~kw.dict
                  THEN Exc("AttributeError", "no attribute get")
                  ELSE r.raised
        env2 == IF calls THEN [env1 EXCEPT !.safe_modules = r.safe_modules] ELSE env1
    IN  IF raised # NoExc
        THEN [env |-> env2, raised |-> raised, observation |-> NoObs, reward |-> 0,
              done |-> FALSE, exec |-> r]
        ELSE [env |-> [env2 EXCEPT !.solved = b.solved],
              raised |-> NoExc,
              observation |-> IF tell THEN [b.observation EXCEPT !.notes = Append(@, "max_steps")]
                              ELSE b.observation,
              reward |-> b.reward, done |-> b.done \/ atMax, exec |-> r]

\* MechgaiaEnv.step(action): raised is the exception that leaves the call
\* (NoExc when it returns a StepResult); slow is the sandbox's clock
EnvStep(env, action, slow) ==
    CHOOSE res \in
      { StepWith(env, action, r) :
          r \in { IF action.name = "python_exec" /\ action.kwargs.dict
                  THEN Execute(env.safe_modules, action.kwargs.code, <<>>, slow)
                  ELSE NoExec } } : TRUE

(***************************************************************************)
(* Reply texts.  A reply text is the record of what ask_agent_to_solve     *)
(* reads from it:                                                          *)
(*   tag       what the content of its <json> tag is                       *)
(*     none        there is no <json> tag                                  *)
(*     action      JSON: an object with exactly the keys name and kwargs   *)
(*     not_action  JSON that lacks name or kwargs (or is not an object)    *)
(*     bad_action  JSON: an object with name, kwargs and further keys      *)
(*     extra_text  not JSON; the first balanced {...} is as for action     *)
(*     extra_bad   not JSON; the first balanced {...} is as for bad_action *)
(*     broken      not JSON; no {...} in it is an object with name, kwargs *)
(*   fence     it has a fenced block labelled json                         *)
(*   design_json  outside fences it has a JSON object with one of the keys *)
(*             design, rationale, code                                     *)
(*   keyword   it contains one of design, rationale, code, height_m,       *)
(*             frequency                                                   *)
(*   name_obj  what the first brace group without inner braces that        *)
(*             contains "name" is                                          *)
(*     none        there is none                                           *)
(*     bad_json    not JSON                                                *)
(*     not_action  JSON whose keys are not exactly name and kwargs         *)
(*     action      JSON with exactly name and kwargs (kwargs cannot hold   *)
(*                 braces, so it is no mapping)                            *)
(*   action    the action that the tag or the brace group holds            *)
(*   content   the text as a content string                                *)
(***************************************************************************)
Text(tag, fence, dj, kw, nobj, action, content) ==
    [tag |-> tag, fence |-> fence, design_json |-> dj, keyword |-> kw,
     name_obj |-> nobj, action |-> action, content |-> content]
NoAction == Action("", NoKwargs)

\* the content strings of replies: no task of an environment has options,
\* and a text with the solution in it is read the same with or without a
\* keyword
ReplyContents == {c \in Contents : c.opt = 0 /\ ~(c.gold /\ c.kw)}
\* the actions of replies: the driver does not look into the code of a
\* python_exec action, one-line snippets stand for all
ReplyActions ==
    {a \in Actions : a.kwargs.content \in ReplyContents /\ Len(a.kwargs.code) <= 1}

\* a JSON object with a design key has a keyword in it
DesignKeyword == {dk \in BOOLEAN \X BOOLEAN : dk[1] => dk[2]}

Texts ==
    \* a <json> tag that holds an action
    {Text("action", FALSE, FALSE, FALSE, "none", a, EmptyContent) : a \in ReplyActions}
    \* a <json> tag that holds an action and text beside it
    \cup {Text("extra_text", FALSE, FALSE, FALSE, "none", a, EmptyContent) :
            a \in {t \in ReplyActions : t.kwargs.code = <<>> /\ t.kwargs.dict}}
    \* a <json> tag that holds no action
    \cup {Text(t, FALSE, FALSE, FALSE, "none", NoAction, c) :
            t \in {"not_action", "bad_action", "extra_bad", "broken"}, c \in ReplyContents}
    \* a <json> tag beside a fenced block, keywords and a brace group
    \cup {Text(t, TRUE, FALSE, TRUE, "not_action", RespondWith(EmptyContent), EmptyContent) :
            t \in {"action", "broken"}}
    \* no tag, a fenced json block
    \cup {Text("none", TRUE, FALSE, kn[1], kn[2], NoAction, c) :
            kn \in {<<FALSE, "none">>, <<TRUE, "not_action">>}, c \in ReplyContents}
    \* no tag, a fenced json block that holds a tool call (its kwargs are a
    \* mapping, so the pattern of the name object does not match it)
    \cup {Text("none", TRUE, FALSE, FALSE, "none", a, EmptyContent) :
            a \in {Action("calculator",
                          Kwargs(TRUE, EmptyContent, Expression(TRUE, Gold), <<>>, FALSE)),
                   Action("get_material_properties",
                          Kwargs(TRUE, EmptyContent, Expression(FALSE, 0), <<>>, TRUE))}}
    \* no tag, no fence
    \cup {Text("none", FALSE, dk[1], dk[2], n, NoAction, c) :
            dk \in DesignKeyword, n \in {"none", "bad_json", "not_action"},
            c \in ReplyContents}
    \cup {Text("none", FALSE, dk[1], dk[2], "action", Action(nm, NotADict), EmptyContent) :
            dk \in DesignKeyword, nm \in ActionNames}

\* parse_tags(text): whether the mapping has the key "json"
HasJsonTag(text) == text.tag # "none"

\* re.search of the fenced-block pattern in the driver
HasJsonCodeBlock(text) == text.fence

\* extract_json_from_response(text) is not None, for a text without fenced
\* block: the last brace group that is a JSON object with a design key
ExtractJsonFromResponse(text) == text.design_json

\* any(keyword in white_text.lower() ...)
HasDesignKeyword(text) == text.keyword

max_format_retries == 1

\* the fallback action: respond with the full reply text
RawRespond(text) == RespondWith(text.content)

\* what one reply is parsed to, from "white_tags = parse_tags(white_text)" to
\* the call of env.step:
\*   kind    "repair" (continue with the repair prompt), "raise", "action"
Parsed(kind, action, should_break, parse_failed, ffc, exc) ==
    [kind |-> kind, action |-> action, should_break |-> should_break,
     parse_failed |-> parse_failed, format_failure_count |-> ffc, exc |-> exc]

ParseTagged(text, ffc) ==
    IF text.tag \in {"action", "extra_text"}
    THEN Parsed("action", text.action, FALSE, FALSE, ffc, NoExc)
    ELSE Parsed("action", RawRespond(text), TRUE, TRUE, ffc, NoExc)

ParseNameObject(text, ffc) ==
    CASE text.name_obj = "action" ->
           Parsed("action", text.action, FALSE, FALSE, ffc, NoExc)
      [] text.name_obj = "not_action" ->
           \* Action(**action_dict) raises TypeError; the handler names
           \* json.JSONDecodeError and ValueError
           Parsed("raise", NoAction, FALSE, FALSE, ffc, Exc("TypeError", "Action() argument"))
      [] text.name_obj = "bad_json" ->
           Parsed("action", RawRespond(text), TRUE, TRUE, ffc + 1, NoExc)
      [] OTHER ->
           Parsed("action", RawRespond(text), TRUE, FALSE, ffc, NoExc)

ParseReply(text, ffc) ==
    IF HasJsonTag(text) THEN ParseTagged(text, ffc)
    ELSE IF HasJsonCodeBlock(text)
    THEN Parsed("action", RawRespond(text), TRUE, FALSE, ffc, NoExc)
    ELSE IF ~ExtractJsonFromResponse(text) /\ ffc < max_format_retries
            /\ HasDesignKeyword(text)
    THEN Parsed("repair", NoAction, FALSE, FALSE, ffc + 1, NoExc)
    ELSE ParseNameObject(text, ffc)

(***************************************************************************)
(* Fixed-point arithmetic.                                                 *)
(***************************************************************************)
Max(a, b) == IF a >= b THEN a ELSE b
Half == Scale \div 2
RECURSIVE Pow10(_)
Pow10(k) == IF k = 0 THEN 1 ELSE 10 * Pow10(k - 1)
RECURSIVE FracDigits(_, _, _)
\* the first k decimal digits of r / b, for 0 <= r < b
FracDigits(r, b, k) ==
    IF k = 0 THEN 0
    ELSE ((r * 10) \div b) * Pow10(k - 1) + FracDigits((r * 10) % b, b, k - 1)
\* a / b for a >= 0, b > 0; quotients of 200 and more are reported as 200
FDiv(a, b) ==
    IF a \div b >= 200 THEN 200 * Scale
    ELSE (a \div b) * Scale + FracDigits(a % b, b, 7)

(***************************************************************************)
(* UnitTestGrader.                                                         *)
(***************************************************************************)
\* response["answer"]: None, a number, or a string that is no number
NoAnswer == [t |-> "none", n |-> 0]
Number(n) == [t |-> "num", n |-> n]
NotANumber == [t |-> "text", n |-> 0]

\* gold_answer / task_schema: has says that the key "tolerance" is present
GoldAnswer(has, tol, sol) == [has_tolerance |-> has, tolerance |-> tol, solution |-> sol]
TaskSchema(has, tol) == [has_tolerance |-> has, tolerance |-> tol]
\* gold_answer.get("tolerance", task_schema.get("tolerance", 0.01))
Tolerance(task_schema, gold_answer) ==
    IF gold_answer.has_tolerance THEN gold_answer.tolerance
    ELSE IF task_schema.has_tolerance THEN task_schema.tolerance
    ELSE DefaultTolerance

\* the last number that the pattern finds in the captured stdout
LastNumber(stdout) ==
    LET nums == {i \in 1..Len(stdout) : stdout[i].t = "int"}
    IN  IF nums = {} THEN NoAnswer
        ELSE Number(stdout[CHOOSE i \in nums : \A j \in nums : j <= i].n)

\* the scores of a failed path
FailedB(msg) ==
    [correctness |-> 0, code_execution |-> 0, unit_conversion |-> 0, error |-> msg]

\* the tolerance as it is given, without the floor of 1%
GivenTolerance(tolerance) == tolerance
\* relative_tolerance = max(tolerance, 0.01)
RelativeTolerance(tolerance) == Max(tolerance, DefaultTolerance)
\* abs(gold_solution) < 1e-6
NearZero(gold_solution) == Abs(gold_solution) < Scale \div (1000 * 1000)
\* absolute_tolerance = max(tolerance, 1e-6)
AbsoluteTolerance(tolerance) == Max(tolerance, Scale \div (1000 * 1000))

\* a credit that falls off over four tolerances
PartialCredit(value_tolerance_pass, relative_error, bound) ==
    IF value_tolerance_pass THEN Scale
    ELSE Max(0, Scale - FDiv(relative_error, 4 * bound))
\* correctness = 1.0 if value_tolerance_pass
\*               else max(0.0, 1.0 - relative_error / relative_tolerance)
\* (absolute_tolerance for a gold solution near zero)
Correctness(value_tolerance_pass, relative_error, bound) ==
    IF value_tolerance_pass THEN Scale
    ELSE Max(0, Scale - FDiv(relative_error, bound))

\* the part of evaluate_level_b from "if answer is None" on; ran says that
\* code was given, r is what the sandbox returned for it
GradeAnswer(tolerance, gold_solution, answer, ran, r) ==
    IF answer.t = "none" THEN FailedB("No answer provided")
    ELSE IF answer.t = "text" THEN FailedB("Invalid answer format")
    ELSE
      LET relative_tolerance == RelativeTolerance(tolerance)
          error == Abs(answer.n - gold_solution)
          small == NearZero(gold_solution)
          absolute_tolerance == AbsoluteTolerance(tolerance)
          relative_error == IF small THEN error ELSE FDiv(error, Abs(gold_solution))
          bound == IF small THEN absolute_tolerance ELSE relative_tolerance
          value_tolerance_pass == relative_error <= bound
          correctness == Correctness(value_tolerance_pass, relative_error, bound)
          unit_consistency ==
              IF Abs(gold_solution) < 10 * Abs(answer.n)
                 /\ Abs(answer.n) < 10 * Abs(gold_solution)
              THEN Scale ELSE Half
          executed == ran /\ ~Truthy(r.error)
      IN  [correctness |-> correctness,
           value_tolerance |-> IF value_tolerance_pass THEN Scale ELSE 0,
           unit_consistency |-> unit_consistency,
           code_execution |-> IF executed THEN Scale ELSE Half,
           intermediate_logic |-> IF executed THEN Scale ELSE Half,
           absolute_error |-> error,
           relative_error |-> relative_error]

\* evaluate_level_b once the sandbox has returned r for response["code"]
\* (ran: the code is not empty and the sandbox was called)
LevelBWith(task_schema, gold_answer, response, ran, r) ==
    LET tolerance == Tolerance(task_schema, gold_answer)
        none == [raised |-> NoExc, scores |-> <<>>]
    IN  IF ran /\ r.raised # NoExc
        THEN [raised |-> r.raised, scores |-> <<>>]
        ELSE IF ran /\ Truthy(r.error)
        THEN [raised |-> NoExc, scores |-> FailedB(r.error.s)]
        ELSE IF ran /\ r.result # PyNone /\ r.result.t # "int"
        THEN \* float(exec_result["result"]) of a value that is no number
             [raised |-> Exc("TypeError", "float() argument"), scores |-> <<>>]
        ELSE
          LET answer == IF ran /\ r.result # PyNone THEN Number(r.result.n)
                        ELSE IF ran /\ LastNumber(r.stdout) # NoAnswer
                        THEN LastNumber(r.stdout)
                        ELSE response.answer
          IN  [raised |-> NoExc,
               scores |-> GradeAnswer(tolerance, gold_answer.solution, answer, ran, r)]

\* UnitTestGrader.evaluate_level_b(task_schema, parameters, gold_answer,
\* response): [raised, scores, exc]; exc is what the snippet raised
EvaluateLevelB(task_schema, parameters, gold_answer, response, slow) ==
    CHOOSE ret \in
      { [raised |-> g.raised, scores |-> g.scores, exc |-> r.exc] :
          <<r, g>> \in
            { <<r0, LevelBWith(task_schema, gold_answer, response, response.code # <<>>, r0)>> :
                r0 \in { IF response.code # <<>>
                         THEN Execute(SafeModules, response.code, parameters, slow)
                         ELSE NoExec } } } : TRUE

\* evaluate_level_c_code once the sandbox has returned r
LevelCCodeWith(r) ==
    IF r.raised # NoExc THEN [raised |-> r.raised, scores |-> <<>>]
    ELSE IF Truthy(r.error)
    THEN [raised |-> NoExc,
          scores |-> [code_execution |-> 0, syntax_correct |-> 0, error |-> r.error.s]]
    ELSE [raised |-> NoExc,
          scores |-> [code_execution |-> IF r.result # PyNone \/ r.stdout # <<>>
                                         THEN Scale ELSE Half,
                      syntax_correct |-> Scale,
                      execution_time |-> 0]]

\* UnitTestGrader.evaluate_level_c_code(task_schema, code, design_params)
EvaluateLevelCCode(code, design_params, slow) ==
    CHOOSE ret \in
      { [raised |-> g.raised, scores |-> g.scores, exc |-> r.exc] :
          <<r, g>> \in { <<r0, LevelCCodeWith(r0)>> :
                           r0 \in {Execute(SafeModules, code, design_params, slow)} } } : TRUE

(***************************************************************************)
(* State.                                                                  *)
(***************************************************************************)
VARIABLES
    env,        \* a MechgaiaEnv with its SandboxExecutor
    ops,        \* operations performed on env
    defined,    \* per name, the value the python_exec actions of the current
                \* task instance last gave it (PyNone: not defined by them)
    stale,      \* the names defined by python_exec actions before the last reset
    last,       \* the last operation on env and what it returned
    drv,        \* one call of ask_agent_to_solve: its locals and its position
    grd,        \* the last call of a UnitTestGrader method and its return
    batch,      \* one call of MechgaiaGreenAgentExecutor.execute
    call        \* one call of a function without state: arguments and return

vars == <<env, ops, defined, stale, last, drv, grd, batch, call>>

\* no function is being called
NoCall == [pc |-> "idle", fn |-> ""]

Undefined == [v \in VarNames |-> PyNone]
\* what a snippet started in namespace ns sees of the names of VarNames
Seen(ns) == [v \in VarNames |-> IF Has(ns, v) THEN Get(ns, v) ELSE PyNone]

\* the snippet that started in namespace start and ended with ns gave v a value
Assigned(start, ns, v) ==
    Has(ns, v) /\ (Has(start, v) => Get(ns, v) # Get(start, v))

LastOp(op, action, res) ==
    [op |-> op, name |-> action.name, dict |-> action.kwargs.dict,
     raised |-> res.raised, exc |-> res.exec.exc, sandbox_raised |-> res.exec.raised,
     error |-> res.exec.error,
     seen |-> Seen(res.exec.start), reward |-> res.reward, done |-> res.done]
NoRes == [raised |-> NoExc, reward |-> 0, done |-> FALSE, exec |-> NoExec]

(***************************************************************************)
(* ask_agent_to_solve.  The call is suspended while it awaits the reply to *)
(* the message it sent; the model's steps run from one suspension to the   *)
(* next, or to the return or the exception that ends the call.             *)
(***************************************************************************)
\* the messages the driver sends
Msg(kind, obs) == [kind |-> kind, observation |-> obs]
NoMsg == Msg("", NoObs)
TaskDescription == Msg("task_description", NoObs)
RepairMessage == Msg("repair_message", NoObs)
ToolCallResult(obs) == Msg("tool_call_result", obs)

\* context ids of replies; NoCtx is None
NoCtx == ""
CtxIds == {NoCtx, "ctx1", "ctx2"}

\* a reply: a Message with one text part
Replies == [context_id : CtxIds, text : Texts]

\* what the driver keeps of the last reply and of the last env.step call
\* (kind is what the reply was parsed to, "unparsed" if it was not parsed;
\* carried is the name of the action that a fenced block without tag holds)
NoReply ==
    [answered |-> "", context_id |-> NoCtx, tagged |-> FALSE, fence |-> FALSE,
     name_obj |-> "", carried |-> "", content |-> EmptyContent, kind |-> "unparsed"]
ReplyRec(msg, reply, kind) ==
    [answered |-> msg.kind, context_id |-> reply.context_id,
     tagged |-> HasJsonTag(reply.text),
     fence |-> reply.text.fence, name_obj |-> reply.text.name_obj,
     carried |-> IF reply.text.fence /\ ~HasJsonTag(reply.text)
                 THEN reply.text.action.name ELSE "",
     content |-> reply.text.content, kind |-> kind]
NoStep ==
    [name |-> "", content |-> EmptyContent, returned |-> FALSE, done |-> FALSE,
     observation |-> NoObs]
StepRec(action, res) ==
    [name |-> action.name, content |-> action.kwargs.content,
     returned |-> res.raised = NoExc, done |-> res.done, observation |-> res.observation]

\* info of the SolveResult: what last_response holds, whether tool_results
\* was filled
NoInfo == [last_response |-> "none", tool_results |-> FALSE]
InfoAfter(info, action, res) ==
    IF action.name = RESPOND_ACTION_NAME
    THEN [info EXCEPT !.last_response = "content"]
    ELSE IF action.name \in {"calculator", "python_exec"}
    THEN [info EXCEPT !.tool_results = TRUE,
                      !.last_response = IF res.done THEN "tool" ELSE @]
    ELSE info

\* the locals before the call
NewDriver(n) ==
    [pc |-> "idle", max_num_steps |-> n, turn |-> 0, context_id |-> NoCtx,
     next_green_message |-> NoMsg, format_failure_count |-> 0, reward |-> 0,
     info |-> NoInfo, sent |-> 0, repairs |-> 0, steps |-> 0,
     reply |-> NoReply, step |-> NoStep, exc |-> NoExc]

\* the top of the loop: the next iteration sends next_green_message and
\* awaits the reply; after max_num_steps iterations the loop is left and the
\* SolveResult returned
NextIteration(d) ==
    IF d.turn < d.max_num_steps
    THEN [d EXCEPT !.turn = @ + 1, !.sent = @ + 1, !.pc = "awaiting",
                   !.repairs = IF d.next_green_message = RepairMessage THEN @ + 1 ELSE @]
    ELSE [d EXCEPT !.pc = "returned"]

Raised(d, e) == [d EXCEPT !.pc = "raised", !.exc = e]

\* whether the loop is left after env.step returned
BreaksWhenDone(action, res, should_break) == res.done
Breaks(action, res, should_break) ==
    res.done \/ should_break \/ action.name = RESPOND_ACTION_NAME

\* the message built from a step that does not leave the loop
NextGreenMessage(res) == ToolCallResult(res.observation)

\* the driver after env.step(parsed.action) ended with res
AfterStep(d, parsed, res) ==
    IF res.raised # NoExc THEN Raised(d, res.raised)
    ELSE IF Breaks(parsed.action, res, parsed.should_break)
    THEN [d EXCEPT !.pc = "returned", !.reward = res.reward,
                   !.info = InfoAfter(@, parsed.action, res)]
    ELSE NextIteration([d EXCEPT !.reward = res.reward,
                                 !.info = InfoAfter(@, parsed.action, res),
                                 !.next_green_message = NextGreenMessage(res)])

\* the assertion on the reply's context id holds (or is not made)
ContextAlwaysAccepted(context_id, reply) == TRUE
ContextAccepted(context_id, reply) ==
    context_id = NoCtx \/ context_id = reply.context_id
ContextIdChanged == Exc("AssertionError", "Context ID should remain the same")

\* the grader between calls
NoGrading ==
    [pc |-> "idle", fn |-> "", task_schema |-> TaskSchema(FALSE, 0), parameters |-> <<>>,
     gold_answer |-> GoldAnswer(FALSE, 0, 0),
     response |-> [answer |-> NoAnswer, code |-> <<>>], slow |-> FALSE,
     exc |-> NoExc, raised |-> NoExc, scores |-> <<>>]
\* a call of fn that has not run yet
GradingCall(fn, task_schema, parameters, gold_answer, response, slow) ==
    [NoGrading EXCEPT !.pc = "called", !.fn = fn, !.task_schema = task_schema,
                      !.parameters = parameters, !.gold_answer = gold_answer,
                      !.response = response, !.slow = slow]

(***************************************************************************)
(* MechgaiaGreenAgentExecutor.execute: the loop over instances_to_evaluate.*)
(***************************************************************************)
\* an element of instances_to_evaluate: None (legacy mode), or the id of an
\* instance; found / task_found say what the database returns for it
Legacy == [id |-> "none", found |-> FALSE, task_found |-> FALSE, level |-> ""]
Instance(found, task_found, level) ==
    [id |-> "id", found |-> found, task_found |-> task_found, level |-> level]
Levels == {"A", "B", "C", "D"}
\* the ids of instances_to_evaluate were read from the database at the top of
\* the call, so the loop finds each of them and its task
Instances == {Instance(TRUE, TRUE, l) : l \in Levels}

\* how ask_agent_to_solve ends: a SolveResult with its info, or an exception
Solved(info, reward) == [raised |-> NoExc, info |-> info, reward |-> reward]
SolveOutcomes ==
    {Solved([last_response |-> l, tool_results |-> t], reward) :
        l \in {"none", "content", "tool"}, t \in BOOLEAN, reward \in {0, 1}}
    \cup {[raised |-> ContextIdChanged, info |-> NoInfo, reward |-> 0]}

\* how parse_response ends: for a design task whose text has a fenced JSON
\* array, json_obj.get raises
ParseOutcomes(level) ==
    IF level \in {"C", "D"} THEN {NoExc, Exc("AttributeError", "no attribute get")}
    ELSE {NoExc}

\* scores: the entries that the success predicates read, Missing for a key
\* the mapping lacks; criteria is the least of the four criteria of levels
\* C and D
Missing == -1
Scores(err, c, v, o, t, m, k) ==
    [error |-> err, correctness |-> c, value_tolerance |-> v, overall_score |-> o,
     technical_accuracy |-> t, mej_overall_score |-> m, criteria |-> k]
\* scores = {"error": str(e)}
ErrorScores == Scores(TRUE, Missing, Missing, Missing, Missing, Missing, Missing)
\* scores.get(name, 0)
ScoreGet(scores, name) == IF scores[name] = Missing THEN 0 ELSE scores[name]
Tenths(n) == (n * Scale) \div 10
ScoreSets ==
    {Scores(FALSE, 0, 0, 0, 0, 0, 0),
     Scores(FALSE, Scale, Scale, 0, 0, 0, 0),
     Scores(FALSE, 0, 0, Tenths(8), Tenths(8), Tenths(8), Tenths(8)),
     Scores(FALSE, 0, 0, Tenths(6), Tenths(5), Tenths(6), Tenths(6)),
     Scores(FALSE, Half, 0, Tenths(7), Tenths(7), Tenths(6), Tenths(5))}

\* how the grading of the try block ends: scores, an exception that the
\* handler turns into an error entry, or one that "except Exception" lets by
Graded(scores) == [raised |-> NoExc, scores |-> scores]
\* LLMJudgeGrader has no method evaluate_level_d: the call for a level D
\* instance raises AttributeError inside the try block
GradingOutcomes(level) ==
    IF level = "D"
    THEN {[raised |-> Exc("AttributeError", "no attribute evaluate_level_d"),
           scores |-> ErrorScores]}
    ELSE {Graded(sc) : sc \in ScoreSets}
         \cup {[raised |-> Exc("RuntimeError", "judge failed"), scores |-> ErrorScores]}
         \cup IF level = "B"
              THEN {[raised |-> Exc("SystemExit", "1"), scores |-> ErrorScores]}
              ELSE {}

\* the comment above the success predicates gives "overall_score > 0.7" for
\* level C
SuccessByOverall(level, scores) == ScoreGet(scores, "overall_score") > Tenths(7)
\* the success of an instance, from its scores
Success(level, scores) ==
    CASE level = "A" ->
           \/ ScoreGet(scores, "correctness") > Half
           \/ ScoreGet(scores, "overall_score") > Tenths(7)
           \/ ScoreGet(scores, "technical_accuracy") > Tenths(7)
      [] level = "B" ->
           \/ /\ ScoreGet(scores, "correctness") > Tenths(9)
              /\ ScoreGet(scores, "value_tolerance") >= Scale
           \/ ScoreGet(scores, "mej_overall_score") > Tenths(6)
           \/ ScoreGet(scores, "correctness") > Half
      [] level \in {"C", "D"} ->
           \/ ScoreGet(scores, "overall_score") > Tenths(7)
           \/ /\ ScoreGet(scores, "overall_score") >= Tenths(6)
              /\ ScoreGet(scores, "criteria") >= Tenths(6)
      [] OTHER -> FALSE

\* an entry of all_results; index is the position in instances_to_evaluate
\* of the instance it belongs to
LegacyEntry(i, reward) ==
    [index |-> i, has_scores |-> FALSE, has_success |-> FALSE, success |-> FALSE,
     reward |-> reward, scores |-> ErrorScores, empty |-> TRUE]
NoResponseEntry(i) ==
    [index |-> i, has_scores |-> TRUE, has_success |-> TRUE, success |-> FALSE,
     reward |-> 0, scores |-> ErrorScores, empty |-> TRUE]
Entry(i, scores, success) ==
    [index |-> i, has_scores |-> TRUE, has_success |-> TRUE, success |-> success,
     reward |-> IF success THEN 1 ELSE 0, scores |-> scores, empty |-> FALSE]

\* the response text that execute finds in the SolveResult
HasResponseText(info) == info.last_response # "none" \/ info.tool_results

\* execute before it is called, and at the top of its loop
NoBatch ==
    [pc |-> "idle", instances_to_evaluate |-> <<>>, done |-> 0, all_results |-> <<>>,
     exc |-> NoExc, success_rate |-> 0]
NewBatch(instances) ==
    [NoBatch EXCEPT !.pc = "running", !.instances_to_evaluate = instances]

\* one iteration of the loop for the instance inst at position i
Iteration(b, i, inst, solve, parse, grading) ==
    LET next == [b EXCEPT !.done = i]
        fails(e) == [next EXCEPT !.pc = "raised", !.exc = e]
    IN  IF inst = Legacy
        THEN IF solve.raised # NoExc THEN fails(solve.raised)
             ELSE [next EXCEPT !.all_results = Append(@, LegacyEntry(i, solve.reward))]
        ELSE IF ~inst.found \/ ~inst.task_found THEN next
        ELSE IF solve.raised # NoExc THEN fails(solve.raised)
        ELSE IF ~HasResponseText(solve.info)
        THEN [next EXCEPT !.all_results = Append(@, NoResponseEntry(i))]
        ELSE IF parse # NoExc THEN fails(parse)
        ELSE IF grading.raised # NoExc /\ ~IsException(grading.raised)
        THEN fails(grading.raised)
        ELSE [next EXCEPT !.all_results =
                Append(@, Entry(i, grading.scores, Success(inst.level, grading.scores)))]

\* metrics["success_rate"]
SuccessRate(all_results) ==
    IF all_results = <<>> THEN 0
    ELSE FDiv(Cardinality({j \in 1..Len(all_results) : all_results[j].success}),
              Len(all_results))

(***************************************************************************)
(* SpecEnv: one environment, reset and stepped by its caller.              *)
(***************************************************************************)
InitEnv ==
    /\ env \in {NewEnv(p) : p \in Problems}
    /\ call = NoCall
    /\ ops = 0
    /\ defined = Undefined
    /\ stale = {}
    /\ last = LastOp("init", Action("", NoKwargs), NoRes)
    /\ drv = NewDriver(0)
    /\ grd = NoGrading
    /\ batch = NoBatch

\* env.reset()
Reset ==
    /\ ops < MaxEnvOps
    /\ env' = EnvReset(env)
    /\ ops' = ops + 1
    /\ stale' = stale \cup {v \in VarNames : defined[v] # PyNone}
    /\ defined' = Undefined
    /\ last' = LastOp("reset", Action("", NoKwargs), NoRes)
    /\ UNCHANGED <<drv, grd, batch, call>>

\* env.step(action)
Step ==
    /\ ops < MaxEnvOps
    /\ \E action \in Actions :
       \E slow \in IF action.name = "python_exec" THEN BOOLEAN ELSE {FALSE} :
       \E res \in {EnvStep(env, action, slow)} :
         LET ran == action.name = "python_exec" /\ action.kwargs.dict
         IN  /\ env' = res.env
             /\ ops' = ops + 1
             /\ defined' = IF ran
                           THEN [v \in VarNames |->
                                   IF Assigned(res.exec.start, res.exec.ns, v)
                                   THEN Get(res.exec.ns, v)
                                   ELSE defined[v]]
                           ELSE defined
             /\ stale' = stale
             /\ last' = LastOp("step", action, res)
             /\ UNCHANGED <<drv, grd, batch, call>>

NextEnv == Reset \/ Step
SpecEnv == InitEnv /\ [][NextEnv]_vars

(***************************************************************************)
(* SpecSteps: an environment that was stepped before, up to the step limit *)
(* and beyond.                                                             *)
(***************************************************************************)
RECURSIVE EnvAfter(_, _)
\* the environment fresh after k calls of step with an action that step does
\* not know
EnvAfter(fresh, k) ==
    IF k = 0 THEN fresh
    ELSE CHOOSE stepped \in
           {EnvStep(before, Action("frobnicate", NoKwargs), FALSE).env :
              before \in {EnvAfter(fresh, k - 1)}} : TRUE

InitSteps ==
    /\ env \in {EnvAfter(EnvReset(NewEnv(p)), k) :
                   p \in Problems \cup {Problem("calculation", TRUE, SmallGold, DefaultTolerance)},
                   k \in {0, max_steps - 2}}
    /\ call = NoCall
    /\ ops = MaxEnvOps - 2
    /\ defined = Undefined
    /\ stale = {}
    /\ last = LastOp("init", Action("", NoKwargs), NoRes)
    /\ drv = NewDriver(0)
    /\ grd = NoGrading
    /\ batch = NoBatch

SpecSteps == InitSteps /\ [][NextEnv]_vars

\* the tasks of the driven environments: one with a numeric solution, one
\* with options, one design task
DriverProblems ==
    {p \in Problems : p.has_answer /\ p.type \in {"calculation", "multiple_choice", "design"}}

(***************************************************************************)
(* SpecDriver: one call of ask_agent_to_solve against a target that may    *)
(* reply anything.                                                         *)
(***************************************************************************)
InitDriver ==
    /\ env \in {NewEnv(p) : p \in DriverProblems}
    /\ call = NoCall
    /\ ops = 0
    /\ defined = Undefined
    /\ stale = {}
    /\ last = LastOp("init", Action("", NoKwargs), NoRes)
    /\ drv \in {NewDriver(n) : n \in 0..MaxNumSteps}
    /\ grd = NoGrading
    /\ batch = NoBatch

\* ask_agent_to_solve(white_agent_url, env, task_index, max_num_steps), up to
\* the first await
Call ==
    /\ drv.pc = "idle"
    /\ env' = EnvReset(env)
    /\ drv' = NextIteration([drv EXCEPT !.next_green_message = TaskDescription])
    /\ UNCHANGED <<ops, defined, stale, last, grd, batch, call>>

\* the reply arrives: the rest of the iteration, and the next send if the
\* loop goes on
OnReply ==
    /\ drv.pc = "awaiting"
    /\ \E reply \in Replies :
         IF ~ContextAccepted(drv.context_id, reply)
         THEN /\ drv' = Raised([drv EXCEPT !.reply = ReplyRec(drv.next_green_message,
                                                             reply, "unparsed")],
                                ContextIdChanged)
              /\ UNCHANGED <<env, ops, defined, stale, last, grd, batch, call>>
         ELSE \E parsed \in {ParseReply(reply.text, drv.format_failure_count)} :
              \E d \in {[drv EXCEPT
                           !.context_id = IF @ = NoCtx THEN reply.context_id ELSE @,
                           !.format_failure_count = parsed.format_failure_count,
                           !.reply = ReplyRec(drv.next_green_message, reply, parsed.kind)]} :
                CASE parsed.kind = "raise" ->
                       /\ drv' = Raised(d, parsed.exc)
                       /\ UNCHANGED <<env, ops, defined, stale, last, grd, batch, call>>
                  [] parsed.kind = "repair" ->
                       /\ drv' = NextIteration([d EXCEPT !.next_green_message = RepairMessage])
                       /\ UNCHANGED <<env, ops, defined, stale, last, grd, batch, call>>
                  [] OTHER ->
                       \E slow \in IF parsed.action.name = "python_exec"
                                   THEN BOOLEAN ELSE {FALSE} :
                       \E res \in {EnvStep(env, parsed.action, slow)} :
                         /\ env' = res.env
                         /\ drv' = AfterStep([d EXCEPT !.steps = @ + 1,
                                                       !.step = StepRec(parsed.action, res)],
                                             parsed, res)
                         /\ UNCHANGED <<ops, defined, stale, last, grd, batch, call>>

NextDriver == Call \/ OnReply
SpecDriver == InitDriver /\ [][NextDriver]_vars

(***************************************************************************)
(* SpecGrader: one call of a UnitTestGrader method on arguments drawn from *)
(* the sets below.                                                         *)
(***************************************************************************)
\* parameters / design_params: none, a variable, a name of a library
Parameters ==
    {<<>>, <<[k |-> "x", v |-> PyInt(3)]>>, <<[k |-> "np", v |-> PyInt(3)]>>}
TaskSchemas == {TaskSchema(FALSE, 0), TaskSchema(TRUE, 5 * DefaultTolerance)}
GoldAnswers ==
    {GoldAnswer(FALSE, 0, Gold), GoldAnswer(TRUE, DefaultTolerance \div 10, Gold),
     GoldAnswer(TRUE, 2 * DefaultTolerance, 2 * Gold), GoldAnswer(FALSE, 0, 0),
     GoldAnswer(FALSE, 0, SmallGold), GoldAnswer(TRUE, 0, 5)}
\* answers on either side of the tolerance (floating point decides an
\* answer exactly on it, so none is put there)
Answers ==
    {NoAnswer, NotANumber, Number(Gold), Number(Gold + DefaultTolerance \div 2),
     Number(Gold + 2 * DefaultTolerance), Number(SmallGold + SmallGold \div 200),
     Number(10 * SmallGold), Number(10)}
Responses == [answer : Answers, code : Snippets]

InitGrader ==
    /\ env \in {NewEnv(Problem("calculation", TRUE, Gold, DefaultTolerance))}
    /\ call = NoCall
    /\ ops = 0
    /\ defined = Undefined
    /\ stale = {}
    /\ last = LastOp("init", Action("", NoKwargs), NoRes)
    /\ drv = NewDriver(0)
    /\ batch = NoBatch
    /\ grd \in {GradingCall("evaluate_level_b", t, p, g, r, slow) :
                  t \in TaskSchemas, p \in Parameters, g \in GoldAnswers,
                  r \in Responses, slow \in BOOLEAN}
               \cup
               {GradingCall("evaluate_level_c_code", TaskSchema(FALSE, 0), p,
                            GoldAnswer(FALSE, 0, 0), [answer |-> NoAnswer, code |-> c], slow) :
                  p \in Parameters, c \in Snippets, slow \in BOOLEAN}

\* unit_test_grader.evaluate_level_b(task_schema, parameters, gold_answer, response)
GradeLevelB ==
    /\ grd.pc = "called"
    /\ grd.fn = "evaluate_level_b"
    /\ \E ret \in {EvaluateLevelB(grd.task_schema, grd.parameters, grd.gold_answer,
                                  grd.response, grd.slow)} :
         grd' = [grd EXCEPT !.pc = "done", !.exc = ret.exc, !.raised = ret.raised,
                            !.scores = ret.scores]
    /\ UNCHANGED <<env, ops, defined, stale, last, drv, batch, call>>

\* unit_test_grader.evaluate_level_c_code(task_schema, code, design_params)
GradeLevelCCode ==
    /\ grd.pc = "called"
    /\ grd.fn = "evaluate_level_c_code"
    /\ \E ret \in {EvaluateLevelCCode(grd.response.code, grd.parameters, grd.slow)} :
         grd' = [grd EXCEPT !.pc = "done", !.exc = ret.exc, !.raised = ret.raised,
                            !.scores = ret.scores]
    /\ UNCHANGED <<env, ops, defined, stale, last, drv, batch, call>>

NextGrader == GradeLevelB \/ GradeLevelCCode
SpecGrader == InitGrader /\ [][NextGrader]_vars

(***************************************************************************)
(* SpecBatch: one call of execute.                                         *)
(***************************************************************************)
InitBatch ==
    /\ env \in {NewEnv(Problem("calculation", TRUE, Gold, DefaultTolerance))}
    /\ call = NoCall
    /\ ops = 0
    /\ defined = Undefined
    /\ stale = {}
    /\ last = LastOp("init", Action("", NoKwargs), NoRes)
    /\ drv = NewDriver(0)
    /\ grd = NoGrading
    /\ batch \in {NewBatch(<<Legacy>>)}
                 \cup {NewBatch(q) : q \in SeqsUpTo(Instances, MaxBatch) \ {<<>>}}

\* the body of "for instance_id in instances_to_evaluate"
EvaluateInstance ==
    /\ batch.pc = "running"
    /\ batch.done < Len(batch.instances_to_evaluate)
    /\ \E solve \in SolveOutcomes :
         LET i == batch.done + 1
             inst == batch.instances_to_evaluate[i]
         IN  \E parse \in ParseOutcomes(inst.level) :
             \E grading \in GradingOutcomes(inst.level) :
               batch' = Iteration(batch, i, inst, solve, parse, grading)
    /\ UNCHANGED <<env, ops, defined, stale, last, drv, grd, call>>

\* after the loop: the metrics
Finish ==
    /\ batch.pc = "running"
    /\ batch.done = Len(batch.instances_to_evaluate)
    /\ batch' = [batch EXCEPT !.pc = "finished",
                              !.success_rate = SuccessRate(batch.all_results)]
    /\ UNCHANGED <<env, ops, defined, stale, last, drv, grd, call>>

NextBatch == EvaluateInstance \/ Finish
SpecBatch == InitBatch /\ [][NextBatch]_vars

(***************************************************************************)
(* SpecCalls: one call of a function that keeps no state, on arguments     *)
(* drawn from the sets below.                                              *)
(***************************************************************************)
SandboxLines == Lines \cup {Copy("result", "x"), Copy("answer", "x")}
SandboxSnippets == SeqsUpTo(SandboxLines, MaxSandboxLines)

\* a call of execute that has not run yet
ExecuteCall(code, variables, slow) ==
    [pc |-> "called", fn |-> "execute", code |-> code, variables |-> variables,
     slow |-> slow, ret |-> NoExec]

(***************************************************************************)
(* response_parser: extract_json_from_response and parse_response.         *)
(***************************************************************************)
\* a fenced json block of a text, by what json.loads makes of its content:
\*   "object"         a JSON object with design.height_m = height
\*   "trailing_comma" the same with a comma before a closing brace
\*   "malformed"      no JSON, with or without its trailing commas
\*   "array"          a JSON array that is not empty
\*   "empty"          the JSON object {}
Block(kind, height) == [kind |-> kind, height |-> height]
Blocks ==
    {Block(k, h) : k \in {"object", "trailing_comma"}, h \in {15, 25}}
    \cup {Block(k, 0) : k \in {"malformed", "array", "empty"}}
\* JSON values: None, a dict with design.height_m, the dict {}, a list
JsonValue(t, height) == [t |-> t, height |-> height]
JsonNone == JsonValue("none", 0)
\* json.loads(json_str): the value, or JSONDecodeError
JsonLoads(block) ==
    CASE block.kind = "object" -> [ok |-> TRUE, value |-> JsonValue("dict", block.height)]
      [] block.kind = "array" -> [ok |-> TRUE, value |-> JsonValue("list", 0)]
      [] block.kind = "empty" -> [ok |-> TRUE, value |-> JsonValue("empty_dict", 0)]
      [] OTHER -> [ok |-> FALSE, value |-> JsonNone]
\* re.sub of the commas that stand before a closing brace or bracket
StripTrailingCommas(block) ==
    IF block.kind = "trailing_comma" THEN Block("object", block.height) ELSE block
\* bool(json_obj)
JsonTruthy(value) == value.t \in {"dict", "list"}

\* a text as the parser reads it: the matches of the fenced-block pattern in
\* order, whether a brace group outside fences is an object with a design
\* key (design.height_m = 20), the height that the patterns of
\* extract_design_parameters find (0: none), the number that
\* extract_numerical_answer finds and the one that
\* extract_answer_from_code_result finds, and the mentions of options
ParserText(blocks, loose, prose, answer, code_answer, mentions) ==
    [blocks |-> blocks, loose |-> loose, prose |-> prose, answer |-> answer,
     code_answer |-> code_answer, mentions |-> mentions]

\* matches[0]
FirstBlock(matches) == matches[1]
\* matches[-1]
LastBlock(matches) == matches[Len(matches)]
\* extract_json_from_response(response_text)
ExtractJson(text) ==
    IF text.blocks # <<>>
    THEN LET first == JsonLoads(LastBlock(text.blocks))
             second == JsonLoads(StripTrailingCommas(LastBlock(text.blocks)))
         IN  IF first.ok THEN first.value
             ELSE IF second.ok THEN second.value
             ELSE JsonNone
    ELSE IF text.loose THEN JsonValue("dict", 20)
    ELSE JsonNone

\* the mapping that parse_response returns: design is design.height_m (0:
\* not given), structured says that the design came from a JSON object
ParsedResponse(selected_option, answer, design, structured) ==
    [selected_option |-> selected_option, answer |-> answer, design |-> design,
     structured |-> structured]
\* parse_response(response_text, task_type, num_options)
ParseResponse(text, task_type, num_options) ==
    LET returns(parsed) == [raised |-> NoExc, parsed |-> parsed]
        json_obj == ExtractJson(text)
    IN  CASE task_type = "multiple_choice" ->
               returns(ParsedResponse(SelectedOption(text.mentions, num_options),
                                      NoAnswer, 0, FALSE))
          [] task_type = "calculation" ->
               returns(ParsedResponse(
                   -1,
                   IF text.code_answer # NoAnswer
                      /\ (text.answer = NoAnswer \/ Abs(text.code_answer.n) > 0)
                   THEN text.code_answer ELSE text.answer,
                   0, FALSE))
          [] task_type \in {"design", "multi_step_design"} ->
               IF JsonTruthy(json_obj)
               THEN IF json_obj.t = "dict"
                    THEN returns(ParsedResponse(-1, NoAnswer, json_obj.height, TRUE))
                    ELSE \* json_obj.get of a list
                         [raised |-> Exc("AttributeError", "no attribute get"),
                          parsed |-> ParsedResponse(-1, NoAnswer, 0, FALSE)]
               ELSE returns(ParsedResponse(-1, NoAnswer, text.prose, FALSE))
          [] OTHER -> returns(ParsedResponse(-1, NoAnswer, 0, FALSE))

\* the texts and the calls of the parser
BlockSeqs == SeqsUpTo(Blocks, MaxBlocks)
NoMentions == Mentions(<<>>, <<>>, <<>>, <<>>)
MentionSets ==
    {Mentions(o, q, a, e) :
        o \in {<<>>, <<2>>, <<5>>, <<1, 2>>},
        q \in SeqsUpTo({Numbered(n, c) : n \in {1, 2, 5}, c \in BOOLEAN}, MaxNumbered),
        a \in {<<>>, <<5>>, <<1, 3>>}, e \in {<<>>, <<5>>, <<3, 1>>}}
\* texts of design tasks, of calculation tasks and of multiple-choice tasks
DesignTexts ==
    {ParserText(b, l, h, NoAnswer, NoAnswer, NoMentions) :
        b \in BlockSeqs, l \in BOOLEAN, h \in {0, 30}}
CalculationTexts ==
    {ParserText(<<>>, FALSE, 0, a, c, NoMentions) :
        a \in {NoAnswer, Number(Gold)},
        c \in {NoAnswer, Number(0), Number(2 * Gold)}}
ChoiceTexts ==
    {ParserText(<<>>, FALSE, 0, NoAnswer, NoAnswer, m) : m \in MentionSets}
ParserCall(fn, text, task_type, num_options) ==
    [pc |-> "called", fn |-> fn, text |-> text, task_type |-> task_type,
     num_options |-> num_options,
     ret |-> [raised |-> NoExc, value |-> JsonNone,
              parsed |-> ParsedResponse(-1, NoAnswer, 0, FALSE)]]
SelectedOptionCalls ==
    {ParserCall("extract_selected_option", t, "multiple_choice", n) :
        t \in ChoiceTexts, n \in {0, 2, 4}}
ExtractJsonCalls ==
    {ParserCall("extract_json_from_response", t, "design", 4) : t \in DesignTexts}
ParseResponseCalls(texts) ==
    {ParserCall("parse_response", t, y, 4) :
        t \in texts,
        y \in {"multiple_choice", "calculation", "design", "multi_step_design", "legacy"}}

(***************************************************************************)
(* LLMJudgeGrader.                                                         *)
(***************************************************************************)
\* how litellm.completion and json.loads end: the call fails, the content
\* is no JSON, or it is a JSON object that gives value to every criterion
\* (0: the object lacks the keys)
JudgeFails == [kind |-> "fails", value |-> 0]
JudgeNoJson == [kind |-> "no_json", value |-> 0]
JudgeScores(n) == [kind |-> "scores", value |-> n]
JudgeOutcomes == {JudgeFails, JudgeNoJson} \cup {JudgeScores(n) : n \in {0, 1, 3, 5, 7}}
\* scores_json.get(name, 0) / 5.0
Judged(judge) == (judge.value * Scale) \div 5

\* what evaluate_level_a reads: correct_option and the length of
\* distractor_analysis of the task schema (Missing: no such key), and
\* selected_option (-1: None), explanation (TRUE: not empty) and the length
\* of distractor_analysis of the response
LevelATask(correct_option, distractors) ==
    [correct_option |-> correct_option, distractor_analysis |-> distractors]
LevelAResponse(selected_option, explanation, distractors) ==
    [selected_option |-> selected_option, explanation |-> explanation,
     distractor_analysis |-> distractors]
\* LLMJudgeGrader.evaluate_level_a(task_schema, response)
JudgeLevelA(task_schema, response, judge) ==
    LET correctness ==
          IF response.selected_option # -1 /\ task_schema.correct_option # -1
          THEN IF response.selected_option = task_schema.correct_option
               THEN Scale ELSE 0
          ELSE Half
        clarity == IF response.explanation THEN Half ELSE 0
        required == IF task_schema.distractor_analysis = Missing THEN 1
                    ELSE task_schema.distractor_analysis
    IN  IF judge.kind = "scores"
        THEN [raised |-> NoExc,
              scores |-> [correctness |-> correctness,
                          technical_accuracy |-> Judged(judge),
                          conceptual_clarity |-> Judged(judge),
                          distractor_analysis |-> Judged(judge),
                          reasoning_quality |-> Judged(judge),
                          overall_score |-> Judged(judge)]]
        ELSE IF required = 0
        THEN [raised |-> Exc("ZeroDivisionError", "division by zero"), scores |-> <<>>]
        ELSE [raised |-> NoExc,
              scores |-> [correctness |-> correctness,
                          technical_accuracy |-> IF correctness # 0 THEN Half ELSE 0,
                          conceptual_clarity |-> clarity,
                          distractor_analysis |->
                              FDiv(response.distractor_analysis, required),
                          reasoning_quality |-> correctness \div 2,
                          overall_score |->
                              (correctness * 6) \div 10 + (clarity * 4) \div 10]]
\* LLMJudgeGrader.evaluate_level_b(task_schema, parameters, gold_answer,
\* response)
JudgeLevelB(judge) ==
    LET each == IF judge.kind = "scores" THEN Judged(judge) ELSE Half
    IN  [raised |-> NoExc,
         scores |-> [mej_technical_accuracy |-> each,
                     mej_mathematical_rigor |-> each,
                     mej_problem_solving_approach |-> each,
                     mej_engineering_judgment |-> each,
                     mej_overall_score |-> each]]
\* LLMJudgeGrader.evaluate_level_c(task_schema, response); rationale says
\* that response["rationale"] is not empty
JudgeLevelC(rationale, judge) ==
    IF judge.kind = "scores"
    THEN [raised |-> NoExc,
          scores |-> [technical_accuracy |-> Judged(judge),
                      safety_constraint_awareness |-> Judged(judge),
                      reasoning_quality |-> Judged(judge),
                      engineering_judgment |-> Judged(judge),
                      overall_score |-> Judged(judge)]]
    ELSE [raised |-> NoExc,
          scores |-> [technical_accuracy |-> Half,
                      safety_constraint_awareness |-> IF rationale THEN Half ELSE 0,
                      reasoning_quality |-> IF rationale THEN Half ELSE 0,
                      engineering_judgment |-> Half,
                      overall_score |-> Half]]

\* a call of a method of the judge that has not run yet
JudgeCall(fn, task_schema, response, judge) ==
    [pc |-> "called", fn |-> fn, task_schema |-> task_schema, response |-> response,
     judge |-> judge, ret |-> [raised |-> NoExc, scores |-> <<>>]]
JudgeCalls ==
    {JudgeCall("evaluate_level_a", LevelATask(c, n), LevelAResponse(o, e, d), j) :
        c \in {-1, 0}, n \in {Missing, 0, 3}, o \in {-1, 0, 1}, e \in BOOLEAN,
        d \in {0, 4}, j \in JudgeOutcomes}
    \cup {JudgeCall("evaluate_level_b", LevelATask(-1, Missing),
                    LevelAResponse(-1, e, 0), j) :
             e \in BOOLEAN, j \in JudgeOutcomes}
    \cup {JudgeCall("evaluate_level_c", LevelATask(-1, Missing),
                    LevelAResponse(-1, e, 0), j) :
             e \in BOOLEAN, j \in JudgeOutcomes}

\* score mappings around the thresholds of the success predicates
ScoreGrid ==
    {Scores(FALSE, c, v, o, t, m, k) :
        c \in {Missing, Half, Half + 1, Tenths(9), Tenths(9) + 1},
        v \in {Missing, 0, Scale},
        o \in {Missing, Tenths(6) - 1, Tenths(6), Tenths(7), Tenths(7) + 1},
        t \in {Missing, Tenths(7), Tenths(7) + 1},
        m \in {Missing, Tenths(6), Tenths(6) + 1},
        k \in {Missing, Tenths(6) - 1, Tenths(6)}}
\* the success predicate of execute, applied to the scores of one instance
SuccessCall(level, scores) ==
    [pc |-> "called", fn |-> "success", level |-> level, scores |-> scores,
     ret |-> FALSE]

InitCalls ==
    /\ env \in {NewEnv(Problem("calculation", TRUE, Gold, DefaultTolerance))}
    /\ ops = 0
    /\ defined = Undefined
    /\ stale = {}
    /\ last = LastOp("init", Action("", NoKwargs), NoRes)
    /\ drv = NewDriver(0)
    /\ grd = NoGrading
    /\ batch = NoBatch
    /\ \/ call \in {ExecuteCall(c, v, slow) :
                      c \in SandboxSnippets, v \in Parameters, slow \in BOOLEAN}
       \/ call \in {SuccessCall(l, sc) : l \in Levels, sc \in ScoreGrid}
       \/ call \in JudgeCalls
       \/ call \in SelectedOptionCalls
       \/ call \in ExtractJsonCalls
       \/ call \in ParseResponseCalls(DesignTexts)
       \/ call \in ParseResponseCalls(CalculationTexts)
       \/ call \in ParseResponseCalls({t \in ChoiceTexts : Len(t.mentions.numbered) <= 1})

\* SandboxExecutor().execute(code, variables)
RunExecute ==
    /\ call.pc = "called"
    /\ call.fn = "execute"
    /\ \E ret \in {Execute(SafeModules, call.code, call.variables, call.slow)} :
         call' = [call EXCEPT !.pc = "done", !.ret = ret]
    /\ UNCHANGED <<env, ops, defined, stale, last, drv, grd, batch>>

\* success = ... for the level of the instance
RunSuccess ==
    /\ call.pc = "called"
    /\ call.fn = "success"
    /\ call' = [call EXCEPT !.pc = "done", !.ret = Success(call.level, call.scores)]
    /\ UNCHANGED <<env, ops, defined, stale, last, drv, grd, batch>>

\* llm_judge.evaluate_level_a / evaluate_level_b / evaluate_level_c
RunJudge ==
    /\ call.pc = "called"
    /\ call.fn \in {"evaluate_level_a", "evaluate_level_b", "evaluate_level_c"}
    /\ call' = [call EXCEPT
                  !.pc = "done",
                  !.ret = CASE call.fn = "evaluate_level_a" ->
                                 JudgeLevelA(call.task_schema, call.response, call.judge)
                            [] call.fn = "evaluate_level_b" -> JudgeLevelB(call.judge)
                            [] call.fn = "evaluate_level_c" ->
                                 JudgeLevelC(call.response.explanation, call.judge)]
    /\ UNCHANGED <<env, ops, defined, stale, last, drv, grd, batch>>

\* extract_selected_option(response_text, num_options)
RunExtractSelectedOption ==
    /\ call.pc = "called"
    /\ call.fn = "extract_selected_option"
    /\ call' = [call EXCEPT
                  !.pc = "done",
                  !.ret.parsed.selected_option =
                      SelectedOption(call.text.mentions, call.num_options)]
    /\ UNCHANGED <<env, ops, defined, stale, last, drv, grd, batch>>

\* extract_json_from_response(response_text)
RunExtractJson ==
    /\ call.pc = "called"
    /\ call.fn = "extract_json_from_response"
    /\ call' = [call EXCEPT !.pc = "done", !.ret.value = ExtractJson(call.text)]
    /\ UNCHANGED <<env, ops, defined, stale, last, drv, grd, batch>>

\* parse_response(response_text, task_type, num_options)
RunParseResponse ==
    /\ call.pc = "called"
    /\ call.fn = "parse_response"
    /\ \E r \in {ParseResponse(call.text, call.task_type, call.num_options)} :
         call' = [call EXCEPT !.pc = "done", !.ret.raised = r.raised,
                              !.ret.parsed = r.parsed]
    /\ UNCHANGED <<env, ops, defined, stale, last, drv, grd, batch>>

NextCalls ==
    \/ RunExecute
    \/ RunSuccess
    \/ RunJudge
    \/ RunExtractSelectedOption
    \/ RunExtractJson
    \/ RunParseResponse
SpecCalls == InitCalls /\ [][NextCalls]_vars

(***************************************************************************)
(* Floating point.  The statistics are computed in binary floating point:  *)
(* every operation returns the float nearest to its exact result, ties to  *)
(* the even mantissa.  The floats of the model have MantissaBits bits of   *)
(* mantissa and the spacing 1 at the small end; the integer FloatOne       *)
(* stands for 1.0.                                                         *)
(***************************************************************************)
FloatOne == 2 ^ 10
RECURSIVE BitLength(_)
BitLength(n) == IF n = 0 THEN 0 ELSE 1 + BitLength(n \div 2)
\* the spacing of the floats at the magnitude of n
Spacing(n) ==
    IF BitLength(n) > MantissaBits THEN 2 ^ (BitLength(n) - MantissaBits) ELSE 1
\* the float nearest to num / den (num >= 0, den > 0)
Round(num, den) ==
    CHOOSE f \in {((num \div (den * s))
                   + (IF \/ 2 * (num % (den * s)) > den * s
                         \/ /\ 2 * (num % (den * s)) = den * s
                            /\ (num \div (den * s)) % 2 = 1
                      THEN 1 ELSE 0)) * s : s \in {Spacing(num \div den)}} : TRUE
RECURSIVE FSum(_)
\* np.add.reduce(xs): the sum from left to right, rounded after each addition
FSum(xs) ==
    IF xs = <<>> THEN 0
    ELSE Round(FSum(SubSeq(xs, 1, Len(xs) - 1)) + xs[Len(xs)], 1)
\* np.mean(xs), xs not empty
FMean(xs) == Round(FSum(xs), Len(xs))
RECURSIVE ISqrt(_, _, _)
\* the largest r + k <= r + 2 * bit - 1 whose square is at most v
ISqrt(v, r, bit) ==
    IF bit = 0 THEN r
    ELSE IF (r + bit) * (r + bit) <= v THEN ISqrt(v, r + bit, bit \div 2)
    ELSE ISqrt(v, r, bit \div 2)
\* np.sqrt(v / FloatOne) for v < 2 ^ 30
FSqrt(v) == Round(ISqrt(v * FloatOne, 0, 2 ^ 14), 1)
\* np.std(xs): the root of the mean of the squared distances to the mean
SquaredDistances(xs, mean) ==
    [i \in 1..Len(xs) |-> Round(Round(Abs(xs[i] - mean), 1) * Round(Abs(xs[i] - mean), 1),
                                FloatOne)]
FStd(xs) == FSqrt(Round(FSum(SquaredDistances(xs, FMean(xs))), Len(xs)))
RECURSIVE FMin(_)
FMin(xs) ==
    IF Len(xs) = 1 THEN xs[1]
    ELSE IF xs[1] <= FMin(Tail(xs)) THEN xs[1] ELSE FMin(Tail(xs))
RECURSIVE FMax(_)
FMax(xs) ==
    IF Len(xs) = 1 THEN xs[1]
    ELSE IF xs[1] >= FMax(Tail(xs)) THEN xs[1] ELSE FMax(Tail(xs))
RECURSIVE Sorted(_)
\* np.sort(xs)
Sorted(xs) ==
    IF xs = <<>> THEN <<>>
    ELSE LET least == CHOOSE i \in 1..Len(xs) : \A j \in 1..Len(xs) : xs[i] <= xs[j]
         IN <<xs[least]>> \o Sorted(SubSeq(xs, 1, least - 1) \o SubSeq(xs, least + 1, Len(xs)))
\* numpy's interpolation between neighbours a <= b at the fraction f / 40
Lerp(a, b, f) ==
    IF 2 * f < 40
    THEN Round(a + Round(Round(b - a, 1) * f, 40), 1)
    ELSE Round(b - Round(Round(b - a, 1) * (40 - f), 40), 1)
\* np.percentile(xs, q) for q = 100 * fortieths / 40 (method "linear"): the
\* value at the position (len(xs) - 1) * q / 100 of the sorted array
Percentile(xs, fortieths) ==
    CHOOSE p \in {Lerp(sorted[((Len(xs) - 1) * fortieths) \div 40 + 1],
                       sorted[IF ((Len(xs) - 1) * fortieths) \div 40 + 1 < Len(xs)
                              THEN ((Len(xs) - 1) * fortieths) \div 40 + 2
                              ELSE Len(xs)],
                       ((Len(xs) - 1) * fortieths) % 40) : sorted \in {Sorted(xs)}} : TRUE

(***************************************************************************)
(* statistics: bootstrap_confidence_interval and aggregate_scores.         *)
(***************************************************************************)
\* the scores of the modelled calls: 0.0, 0.875 and 1.0
StatScores == {0, (FloatOne * 7) \div 8, FloatOne}
\* resamples drawn from all scores instead of those of the list
ResamplesOfAnyScore(scores_array) == [1..Len(scores_array) -> StatScores]
\* one np.random.choice(scores_array, size=n, replace=True): any sequence of
\* n of the scores
Resamples(scores_array) ==
    [1..Len(scores_array) -> {scores_array[i] : i \in 1..Len(scores_array)}]
\* the values np.mean(sample) can take in one iteration
ResampleMeans(scores_array) == {FMean(sample) : sample \in Resamples(scores_array)}
\* the arrays bootstrap_means can be after n_iterations iterations; for an
\* empty list the function returns before the first one
BootstrapMeans(scores_array, n_iterations) ==
    IF scores_array = <<>> THEN {<<>>}
    ELSE [1..n_iterations -> ResampleMeans(scores_array)]
\* bootstrap_confidence_interval(scores, 0.95, n_iterations) when the
\* iterations collect bootstrap_means: (mean, lower, upper); the percentiles
\* are 100 * alpha / 2 = 2.5 and 100 * (1 - alpha / 2) = 97.5
BootstrapConfidenceInterval(scores, bootstrap_means) ==
    IF scores = <<>> THEN <<0, 0, 0>>
    ELSE <<FMean(scores),
           Percentile(bootstrap_means, 1),
           Percentile(bootstrap_means, 39)>>
\* an evaluation dictionary: score is scores[score_key] (Missing: None or no
\* such key); encoded says that "scores" is a JSON string
Evaluation(encoded, score) == [encoded |-> encoded, score |-> score]
\* eval_dict.get("scores", {}), decoded when it is a string, .get(score_key)
ScoreOf(eval_dict) == eval_dict.score
RECURSIVE ContributingScores(_)
\* the scores list that aggregate_scores collects
ContributingScores(evaluations) ==
    IF evaluations = <<>> THEN <<>>
    ELSE IF ScoreOf(Head(evaluations)) # Missing
         THEN <<ScoreOf(Head(evaluations))>> \o ContributingScores(Tail(evaluations))
         ELSE ContributingScores(Tail(evaluations))
\* the dict returned when no score contributes
EmptyStatistics ==
    <<[k |-> "mean", v |-> 0], [k |-> "std", v |-> 0], [k |-> "n", v |-> 0],
      [k |-> "ci_lower", v |-> 0], [k |-> "ci_upper", v |-> 0]>>
\* the dict returned for the scores and the interval computed from them
Statistics(scores, interval) ==
    <<[k |-> "mean", v |-> interval[1]], [k |-> "std", v |-> FStd(scores)],
      [k |-> "n", v |-> Len(scores)],
      [k |-> "ci_lower", v |-> interval[2]], [k |-> "ci_upper", v |-> interval[3]],
      [k |-> "min", v |-> FMin(scores)], [k |-> "max", v |-> FMax(scores)]>>
\* aggregate_scores(evaluations, score_key)
AggregateScores(evaluations, bootstrap_means) ==
    IF ContributingScores(evaluations) = <<>> THEN EmptyStatistics
    ELSE Statistics(ContributingScores(evaluations),
                    BootstrapConfidenceInterval(ContributingScores(evaluations),
                                                bootstrap_means))

(***************************************************************************)
(* SpecStats: one call of a function of statistics, on arguments drawn     *)
(* from the sets below; the resamples are drawn when the call runs.        *)
(***************************************************************************)
StatEvaluations ==
    {Evaluation(FALSE, s) : s \in StatScores \cup {Missing}}
        \cup {Evaluation(TRUE, (FloatOne * 7) \div 8)}
\* a call of a function of statistics that has not run yet
StatCall(fn, evaluations, scores, n_iterations) ==
    [pc |-> "called", fn |-> fn, evaluations |-> evaluations, scores |-> scores,
     n_iterations |-> n_iterations, passed |-> scores,
     ret |-> [interval |-> <<0, 0, 0>>, stats |-> <<>>]]

InitStats ==
    /\ env \in {NewEnv(Problem("calculation", TRUE, Gold, DefaultTolerance))}
    /\ ops = 0
    /\ defined = Undefined
    /\ stale = {}
    /\ last = LastOp("init", Action("", NoKwargs), NoRes)
    /\ drv = NewDriver(0)
    /\ grd = NoGrading
    /\ batch = NoBatch
    /\ \/ call \in {StatCall("bootstrap_confidence_interval", <<>>, s, n) :
                      s \in SeqsUpTo(StatScores, MaxScores), n \in {1, 2}}
       \/ call \in {StatCall("aggregate_scores", e, <<>>, n) :
                      e \in SeqsUpTo(StatEvaluations, MaxEvaluations), n \in {1, 2}}

\* bootstrap_confidence_interval(scores, n_iterations=n_iterations)
RunBootstrap ==
    /\ call.pc = "called"
    /\ call.fn = "bootstrap_confidence_interval"
    /\ \E bootstrap_means \in BootstrapMeans(call.scores, call.n_iterations) :
         call' = [call EXCEPT !.pc = "done",
                              !.ret.interval =
                                  BootstrapConfidenceInterval(call.scores, bootstrap_means)]
    /\ UNCHANGED <<env, ops, defined, stale, last, drv, grd, batch>>

\* aggregate_scores(evaluations), config.bootstrap_iterations = n_iterations
RunAggregate ==
    /\ call.pc = "called"
    /\ call.fn = "aggregate_scores"
    /\ \E bootstrap_means \in BootstrapMeans(ContributingScores(call.evaluations),
                                               call.n_iterations) :
         call' = [call EXCEPT !.pc = "done",
                              !.ret.stats = AggregateScores(call.evaluations, bootstrap_means)]
    /\ UNCHANGED <<env, ops, defined, stale, last, drv, grd, batch>>

NextStats == RunBootstrap \/ RunAggregate
SpecStats == InitStats /\ [][NextStats]_vars

(***************************************************************************)
(* Properties of the environment and its sandbox (SpecEnv).                *)
(***************************************************************************)
PythonExecRan(l) == l.op = "step" /\ l.name = "python_exec" /\ l.dict

\* C7: within one task instance, a variable that an earlier python_exec
\* action defined is defined, with the same value, in the namespace a later
\* python_exec action starts in.
C7_VariablesSurviveWithinInstance ==
    [][(ops' = ops + 1 /\ PythonExecRan(last'))
         => \A v \in VarNames : defined[v] # PyNone => last'.seen[v] = defined[v]]_vars

\* C8: a python_exec action sees no variable that was defined by a
\* python_exec action before the last reset and not again since.
C8_ResetHidesEarlierVariables ==
    PythonExecRan(last)
      => \A v \in stale : defined[v] = PyNone => last.seen[v] = PyNone
\* "x" was defined, the environment reset, and a snippet then read x
C8_Witness ==
    /\ PythonExecRan(last)
    /\ "x" \in stale
    /\ defined["x"] = PyNone
    /\ last.exc.cls = "NameError"

\* C9: execute returns for every snippet, and every exception raised while
\* the snippet ran is reported in the error field of what it returns.
C9_ExecuteNeverRaises ==
    PythonExecRan(last)
      => /\ last.sandbox_raised = NoExc
         /\ last.exc # NoExc => ~last.error.isNone

\* C25: every StepResult has reward 0.0 or 1.0, and reward 1.0 only together
\* with done and solved; current_step grows by exactly one per call of step
\* whatever the action; done is true whenever current_step >= max_steps.
C25_StepResultInvariants ==
    [][last'.op = "step" =>
         /\ env'.current_step = env.current_step + 1
         /\ last'.raised = NoExc =>
               /\ last'.reward \in {0, 1}
               /\ last'.reward = 1 => (last'.done /\ env'.solved)
               /\ env'.current_step >= max_steps => last'.done]_vars
\* an unsolved instance whose step ended only because the limit was reached
C25_Witness ==
    /\ last.op = "step"
    /\ last.raised = NoExc
    /\ env.current_step = max_steps
    /\ ~env.solved
    /\ last.reward = 0
    /\ last.done
    /\ last.name = "frobnicate"

\* the deterministic grader accepts result for the gold answer of problem p:
\* evaluate_level_b gives it value_tolerance 1.0
GraderAccepts(p, result) ==
    GradeAnswer(Tolerance(TaskSchema(FALSE, 0), GoldAnswer(TRUE, p.tolerance, p.solution)),
                p.solution, Number(result.n), FALSE, NoExec).value_tolerance = Scale
\* C27: on a calculation task, a calculator or python_exec step ends the
\* instance as solved (done, reward 1.0) only for a tool result that
\* evaluate_level_b accepts as within tolerance of the same gold value.
C27_SolvedOnlyWhatGraderAccepts ==
    [][\A action \in Actions : \A slow \in BOOLEAN :
         \A res \in {EnvStep(env, action, slow)} :
           (/\ action.name \in {"calculator", "python_exec"}
            /\ env.current_problem.type = "calculation"
            /\ last' = LastOp("step", action, res)
            /\ env' = res.env
            /\ res.raised = NoExc
            /\ res.done /\ res.reward = 1 /\ res.env.solved)
           => GraderAccepts(env.current_problem, res.observation.val)]_vars

(***************************************************************************)
(* Properties of the conversation driver (SpecDriver).                     *)
(***************************************************************************)
\* C1: when every reply keeps the context id, at most max_num_steps + 1
\* messages are sent and the call does not end in an exception.
C1_BoundedAndReturns ==
    /\ drv.sent <= drv.max_num_steps + 1
    /\ drv.pc = "raised" => drv.exc = ContextIdChanged

\* C2: an env.step that returns done, or that was given a respond action,
\* is followed by the return with no message sent; a tool step that returns
\* not done with turns remaining is followed by a message that carries the
\* step's observation.
C2_StopOrForwardObservation ==
    [][(drv'.steps = drv.steps + 1 /\ drv'.step.returned)
         => IF drv'.step.done \/ drv'.step.name = RESPOND_ACTION_NAME
            THEN drv'.pc = "returned" /\ drv'.sent = drv.sent
            ELSE IF drv.turn < drv.max_num_steps
            THEN /\ drv'.pc = "awaiting"
                 /\ drv'.sent = drv.sent + 1
                 /\ drv'.next_green_message = ToolCallResult(drv'.step.observation)
            ELSE drv'.pc = "returned" /\ drv'.sent = drv.sent]_vars
\* a tool step was not done, its observation was sent, and a later tool
\* step was done
C2_Witness ==
    /\ drv.pc = "returned"
    /\ drv.steps >= 2
    /\ drv.step.done
    /\ drv.step.name \in ToolNames
    /\ drv.reply.answered = "tool_call_result"

\* the reply has no <json> tag, no fenced json block and nothing that parses
\* to an action
NothingParseable(r) ==
    ~r.tagged /\ ~r.fence /\ r.name_obj \in {"none", "bad_json", "not_action"}

\* C3: the repair prompt is sent at most once, and a reply to it that has
\* nothing parseable is dispatched as a respond action with the reply's text
\* and ends the call with a return.
C3_OneRepairThenRawRespond ==
    /\ drv.repairs <= 1
    /\ (drv.reply.answered = "repair_message" /\ drv.reply.kind # "unparsed"
        /\ NothingParseable(drv.reply))
         => /\ drv.pc = "returned"
            /\ drv.step.name = RESPOND_ACTION_NAME
            /\ drv.step.content = drv.reply.content

\* C4: every reply that is parsed ends in an action (or the repair prompt),
\* never in an exception.
C4_EveryReplyYieldsAction ==
    drv.reply.kind \in {"unparsed", "repair", "action"}

\* C5: a reply whose context id differs from the one assigned earlier is
\* not parsed, no env.step is called for it, no message is sent and the call
\* ends in an exception.
C5_ChangedContextIdFails ==
    [][(drv.pc = "awaiting" /\ drv' # drv /\ drv.context_id # NoCtx
        /\ drv'.reply.context_id # drv.context_id)
         => /\ drv'.pc = "raised"
            /\ drv'.exc = ContextIdChanged
            /\ drv'.reply.kind = "unparsed"
            /\ drv'.steps = drv.steps
            /\ drv'.sent = drv.sent
            /\ env' = env]_vars
\* after a tool step, a reply with another context id ended the call
C5_Witness ==
    /\ drv.pc = "raised"
    /\ drv.exc = ContextIdChanged
    /\ drv.steps >= 1
    /\ drv.reply.context_id # drv.context_id
    /\ drv.context_id # NoCtx

\* C17: a tool call carried in a fenced json block without <json> tags is
\* dispatched to the environment as that tool action, as it is with tags.
C17_FencedToolCallDispatched ==
    (/\ drv.reply.kind = "action"
     /\ ~drv.reply.tagged
     /\ drv.reply.fence
     /\ drv.reply.carried \in ToolNames)
      => drv.step.name = drv.reply.carried

(***************************************************************************)
(* Properties of the judge (SpecCalls).                                    *)
(***************************************************************************)
JudgeRan ==
    /\ call.pc = "done"
    /\ call.fn \in {"evaluate_level_a", "evaluate_level_b", "evaluate_level_c"}

\* C15: when the judging call fails, the method returns without raising,
\* and every judged criterion of the mapping it returns is 0.5.
C15_FailedJudgeGivesNeutralScores ==
    (JudgeRan /\ call.judge = JudgeFails)
      => /\ call.ret.raised = NoExc
         /\ \A k \in DOMAIN call.ret.scores \ {"correctness"} :
              call.ret.scores[k] = Scale \div 2

(***************************************************************************)
(* Properties of the grader (SpecGrader).                                  *)
(***************************************************************************)
\* C10: when the candidate code raised an exception in the sandbox, the
\* grader returns; its scores have an error entry and code_execution 0.0,
\* with correctness 0.0 from evaluate_level_b and syntax_correct 0.0 from
\* evaluate_level_c_code.
C10_RaisingCodeScoresZero ==
    (grd.pc = "done" /\ IsException(grd.exc))
      => /\ grd.raised = NoExc
         /\ "error" \in DOMAIN grd.scores
         /\ grd.scores.code_execution = 0
         /\ grd.fn = "evaluate_level_b" => grd.scores.correctness = 0
         /\ grd.fn = "evaluate_level_c_code" => grd.scores.syntax_correct = 0

\* a call of evaluate_level_b that graded an answer
GradedB == grd.pc = "done" /\ grd.fn = "evaluate_level_b" /\ grd.raised = NoExc
           /\ "value_tolerance" \in DOMAIN grd.scores
\* the distance of the graded answer from gold: of response["answer"] when
\* no code was given, else of what the code produced
Distance ==
    IF grd.response.code = <<>>
    THEN Abs(grd.response.answer.n - grd.gold_answer.solution)
    ELSE grd.scores.absolute_error
\* the distance d from gold is within the tolerance tol
WithinTolerance(d, gold, tol) ==
    IF Abs(gold) >= Scale \div (1000 * 1000)
    THEN FDiv(d, Abs(gold)) <= Max(tol, Scale \div 100)
    ELSE d <= Max(tol, Scale \div (1000 * 1000))
\* a call without code for gold 0.001 and the default tolerance
SmallGoldCall(answer) ==
    /\ GradedB
    /\ grd.response.code = <<>>
    /\ grd.gold_answer = GoldAnswer(FALSE, 0, Scale \div 1000)
    /\ ~grd.task_schema.has_tolerance
    /\ grd.response.answer = Number(answer)

\* C14: evaluate_level_b sets value_tolerance to 1.0 exactly when the graded
\* answer is within tolerance of gold: relative error at most max(tolerance,
\* 0.01) for |gold| >= 1e-6, absolute error at most max(tolerance, 1e-6)
\* for |gold| < 1e-6. For gold 0.001 an answer 0.5% off passes and an answer
\* of 10 times gold gets a correctness below 0.5.
C14_ValueToleranceWithinTolerance ==
    /\ GradedB =>
         (grd.scores.value_tolerance = Scale
            <=> WithinTolerance(Distance, grd.gold_answer.solution,
                                Tolerance(grd.task_schema, grd.gold_answer)))
    /\ GradedB => grd.scores.value_tolerance \in {0, Scale}
    /\ SmallGoldCall(1005 * (Scale \div (1000 * 1000)))
         => grd.scores.value_tolerance = Scale
    /\ SmallGoldCall(Scale \div 100) => grd.scores.correctness < Scale \div 2
\* gold is 0 and the answer 1e-6 passed on its absolute error
C14_Witness ==
    /\ GradedB
    /\ grd.response.code = <<>>
    /\ grd.gold_answer.solution = 0
    /\ grd.response.answer = Number(10)
    /\ grd.scores.value_tolerance = Scale
    /\ grd.scores.correctness = Scale

\* C16: every numeric value of a score mapping that a grader returned lies
\* in [0, 1].
C16_ScoresInUnitInterval ==
    /\ grd.pc = "done" =>
         \A k \in DOMAIN grd.scores \ {"error"} :
           grd.scores[k] >= 0 /\ grd.scores[k] <= Scale
    /\ JudgeRan =>
         \A k \in DOMAIN call.ret.scores :
           call.ret.scores[k] >= 0 /\ call.ret.scores[k] <= Scale

\* the scores execute combines for a level B instance: those of the grader
\* and the judge's mej_overall_score
Combined(mej_overall_score) ==
    Scores(FALSE, grd.scores.correctness, grd.scores.value_tolerance, Missing, Missing,
           mej_overall_score, Missing)
C6_EveryInstanceHasOneResult ==
    /\ batch.pc # "raised"
    /\ Len(batch.all_results) = batch.done
    /\ batch.instances_to_evaluate # <<Legacy>>
         => \A j \in 1..Len(batch.all_results) :
              /\ batch.all_results[j].index = j
              /\ batch.all_results[j].has_scores
              /\ batch.all_results[j].has_success

\* the instance of an entry of all_results succeeded: a legacy instance when
\* the environment marked it solved (reward 1.0), another one by its success
Succeeded(entry) == IF entry.has_success THEN entry.success ELSE entry.reward = 1
\* C29: the success rate that execute reports is the number of evaluated
\* instances that succeeded divided by the number of result records, a
\* legacy-mode instance of reward 1.0 counting as a success.
C29_SuccessRateCountsSucceeded ==
    batch.pc = "finished" /\ batch.all_results # <<>> =>
        batch.success_rate =
            FDiv(Cardinality({j \in 1..Len(batch.all_results) :
                                Succeeded(batch.all_results[j])}),
                 Len(batch.all_results))

(***************************************************************************)
(* Properties of the sandbox executor (SpecCalls).                         *)
(***************************************************************************)
Executed == call.pc = "done" /\ call.fn = "execute"
\* the snippet has a line that assigns the variable result
AssignsResult(code) ==
    \E i \in 1..Len(code) : code[i].op \in {"assign", "copy"} /\ code[i].var = "result"

C22_LibraryHandlesKept ==
    Executed =>
        \A i \in 1..Len(SafeModules) :
            /\ Has(call.ret.start, SafeModules[i].k)
            /\ Get(call.ret.start, SafeModules[i].k) = SafeModules[i].v

RECURSIVE Introduced(_, _)
\* the names that the lines of code assign and that are not in known, in
\* the order of their first assignment
Introduced(code, known) ==
    IF code = <<>> THEN <<>>
    ELSE IF Head(code).op \in {"assign", "copy"} /\ Head(code).var \notin known
    THEN <<Head(code).var>> \o Introduced(Tail(code), known \cup {Head(code).var})
    ELSE Introduced(Tail(code), known)
\* the variables newly introduced by the snippet of the call
NewVariables == Introduced(call.code, Keys(SafeModules) \cup Keys(call.variables))
\* the last line of the snippet yields no value
YieldsNoValue(code) ==
    code = <<>> \/ code[Len(code)].op \in {"assign", "copy", "print"}
\* C23: when the snippet defines no result variable and its last line yields
\* no value, the value returned is that of the last-introduced new variable
\* whose name matches a keyword if there is one, otherwise that of the
\* last-introduced new variable, and None when the snippet introduced none.
C23_FallbackAmongNewVariables ==
    (/\ Executed
     /\ call.ret.exc = NoExc
     /\ ~Has(call.ret.ns, "result")
     /\ YieldsNoValue(call.code))
      => call.ret.result =
           IF Filter(NewVariables, ResultKeywordNames) # <<>>
           THEN Get(call.ret.ns,
                    Filter(NewVariables, ResultKeywordNames)[
                        Len(Filter(NewVariables, ResultKeywordNames))])
           ELSE IF NewVariables # <<>>
           THEN Get(call.ret.ns, NewVariables[Len(NewVariables)])
           ELSE PyNone

\* C28: the captured stdout is that of a single run of the code, also when
\* the last line is a bare expression or call.
C28_EveryStatementRunsOnce ==
    Executed => call.ret.stdout = PyExec(call.code, call.ret.start, <<>>).out

(***************************************************************************)
(* Properties of the success predicates (SpecCalls, SpecBatch).            *)
(***************************************************************************)
\* a score as the predicates of the tiers read it: 0 when it is missing
Given(scores, name) == IF scores[name] = Missing THEN 0 ELSE scores[name]
DesignPredicate(scores) ==
    \/ Given(scores, "overall_score") > Tenths(7)
    \/ /\ Given(scores, "overall_score") >= Tenths(6)
       /\ Given(scores, "criteria") >= Tenths(6)

C13_LevelDJudgedAndScored ==
    \A j \in 1..Len(batch.all_results) :
      LET e == batch.all_results[j]
          inst == batch.instances_to_evaluate[e.index]
      IN  (inst.level = "D" /\ ~e.empty)
            => /\ ~e.scores.error
               /\ e.success = DesignPredicate(e.scores)

(***************************************************************************)
(* Properties of the response parser (SpecCalls).                          *)
(***************************************************************************)
Ran(fn) == call.pc = "done" /\ call.fn = fn
\* what a fenced block holds, read as JSON after the repair of its trailing
\* commas
Holds(block) ==
    CASE block.kind \in {"object", "trailing_comma"} -> JsonValue("dict", block.height)
      [] block.kind = "array" -> JsonValue("list", 0)
      [] block.kind = "empty" -> JsonValue("empty_dict", 0)
      [] OTHER -> JsonNone

C19_ParserNeverRaises ==
    (Ran("parse_response") \/ Ran("extract_json_from_response"))
      => call.ret.raised = NoExc

\* the numbers that a text mentions as options
Mentioned(m) ==
    {m.option[i] : i \in 1..Len(m.option)}
        \cup {m.numbered[i].n : i \in 1..Len(m.numbered)}
        \cup {m.answer_is[i] : i \in 1..Len(m.answer_is)}
        \cup {m.explicit[i] : i \in 1..Len(m.explicit)}
\* C20: extract_selected_option returns None or a 0-based index in
\* [0, num_options - 1] that the text mentions (nothing out of range, nothing
\* clamped into range); "Option 2" with num_options = 4 yields 1.
C20_SelectedOptionInRange ==
    Ran("extract_selected_option")
      => /\ \/ call.ret.parsed.selected_option = -1
            \/ /\ call.ret.parsed.selected_option >= 0
               /\ call.ret.parsed.selected_option <= call.num_options - 1
               /\ call.ret.parsed.selected_option + 1 \in Mentioned(call.text.mentions)
         /\ (call.text.mentions.option = <<2>> /\ call.num_options = 4)
              => call.ret.parsed.selected_option = 1
\* the last "option N" is out of range and is not clamped: the extraction
\* went on to "answer is 3"
C20_Witness ==
    /\ Ran("extract_selected_option")
    /\ call.num_options = 4
    /\ call.text.mentions.option = <<5>>
    /\ call.text.mentions.numbered = <<>>
    /\ call.text.mentions.answer_is = <<1, 3>>
    /\ call.ret.parsed.selected_option = 2

\* at least two matches, all of them numbers in range
SeveralInRange(matches, num_options) ==
    Len(matches) >= 2 /\ \A i \in 1..Len(matches) : InRange(matches[i], num_options)
\* the numbers of the numbered items
ItemNumbers(numbered) == [i \in 1..Len(numbered) |-> numbered[i].n]
\* C24: when a text mentions several in-range options, all by phrases of one
\* pattern, extract_selected_option returns the option of the last mention;
\* this holds for each of the four patterns.
C24_LastMentionWins ==
    Ran("extract_selected_option") =>
        /\ (/\ SeveralInRange(call.text.mentions.option, call.num_options)
            /\ call.text.mentions.numbered = <<>>
            /\ call.text.mentions.answer_is = <<>>
            /\ call.text.mentions.explicit = <<>>)
             => call.ret.parsed.selected_option = LastMatch(call.text.mentions.option) - 1
        /\ (/\ SeveralInRange(ItemNumbers(call.text.mentions.numbered), call.num_options)
            /\ \A i \in 1..Len(call.text.mentions.numbered) :
                   call.text.mentions.numbered[i].context
            /\ call.text.mentions.option = <<>>
            /\ call.text.mentions.answer_is = <<>>
            /\ call.text.mentions.explicit = <<>>)
             => call.ret.parsed.selected_option =
                  LastMatch(ItemNumbers(call.text.mentions.numbered)) - 1
        /\ (/\ SeveralInRange(call.text.mentions.answer_is, call.num_options)
            /\ call.text.mentions.option = <<>>
            /\ call.text.mentions.numbered = <<>>
            /\ call.text.mentions.explicit = <<>>)
             => call.ret.parsed.selected_option =
                  LastMatch(call.text.mentions.answer_is) - 1
        /\ (/\ SeveralInRange(call.text.mentions.explicit, call.num_options)
            /\ call.text.mentions.option = <<>>
            /\ call.text.mentions.numbered = <<>>
            /\ call.text.mentions.answer_is = <<>>)
             => call.ret.parsed.selected_option =
                  LastMatch(call.text.mentions.explicit) - 1

(***************************************************************************)
(* Properties of the statistics (SpecStats).                               *)
(***************************************************************************)
\* fn has returned
Returned(fn) == call.pc = "done" /\ call.fn = fn
AllStatistics == {"mean", "std", "n", "ci_lower", "ci_upper", "min", "max"}

\* C21: the record that aggregate_scores returns holds all of mean, std, n,
\* ci_lower, ci_upper, min and max, with n the number of evaluations that
\* contribute a score; when no score contributes its values are zeros, and
\* bootstrap_confidence_interval of an empty list is (0, 0, 0).
C21_AggregateHasAllStatistics ==
    /\ Returned("aggregate_scores") =>
          /\ AllStatistics \subseteq Keys(call.ret.stats)
          /\ Get(call.ret.stats, "n") = Len(ContributingScores(call.evaluations))
          /\ ContributingScores(call.evaluations) = <<>> =>
                \A i \in 1..Len(call.ret.stats) : call.ret.stats[i].v = 0
    /\ Returned("bootstrap_confidence_interval") /\ call.scores = <<>> =>
          call.ret.interval = <<0, 0, 0>>

RECURSIVE Total(_)
\* the sum of xs, not rounded
Total(xs) == IF xs = <<>> THEN 0 ELSE Head(xs) + Total(Tail(xs))
\* bootstrap_confidence_interval has returned for a list that is not empty
Bootstrapped == Returned("bootstrap_confidence_interval") /\ call.scores # <<>>

Slack(scores) == Spacing(Len(scores) * FMax(scores))
====
